---- MODULE Spec2Model ----
(***************************************************************************)
(* ProductMaster-MCP: the POST /mcp protocol front (main.py and            *)
(* server/product_mcp_server.py) and the tool pipelines it dispatches to   *)
(* (tools/product_search.py, tools/risk_filter.py,                         *)
(* tools/fuzzy_name_search.py, get_product_details).                       *)
(*                                                                         *)
(* Encoding.  Python None is the empty sequence and a set Optional value   *)
(* v is <<v>>.  A message (a Python str built by an f-string) is the       *)
(* sequence of its parts.  The Japanese literals of the source are given   *)
(* as ASCII strings, the original is quoted at each definition.  A dict    *)
(* is a function from its keys.  text_input is a sequence of characters,   *)
(* so that truthiness and str.strip() are computed, not assumed.           *)
(***************************************************************************)
EXTENDS Integers, Sequences, FiniteSets, TLC

VARIABLES
    pc,            \* position of the request in the endpoint / tool pipeline
    server,        \* which protocol front serves the request: "main" or "product"
    request,       \* the MCPRequest being served
    response,      \* Optional: the MCPResponse the endpoint returned
    toolResp,      \* Optional: the MCPResponse the tool function returned
    raised,        \* Optional: the exception that escaped the tool function, [type, msg]
    debug,         \* the tool's trace dict (debug_info / tool_debug)
    calls,         \* external calls made while serving the request, in order
    conns,         \* connections this request opened and has not closed
    filter,        \* Optional: the normalizer's output (id list / conditions / normalized_params)
    query,         \* the SQL text built, as the sequence of its fragments
    query_params,  \* the bound parameters
    rows,          \* the result set of the search query
    invoked        \* tool functions invoked while serving the request, in order

vars == <<pc, server, request, response, toolResp, raised, debug, calls, conns,
          filter, query, query_params, rows, invoked>>

(***************************************************************************)
(* Bounds of the model.                                                    *)
(***************************************************************************)
MaxReqId == 2
MaxTextLen == 1
MaxListLen == 2

(***************************************************************************)
(* Generic helpers: Optional values, dicts, strings.                       *)
(***************************************************************************)
None == <<>>
Some(v) == <<v>>
IsSome(o) == Len(o) > 0
IsNone(o) == Len(o) = 0
Get(o) == o[1]

EmptyDict == <<>>
Put(d, k, v) == [x \in (DOMAIN d) \cup {k} |-> IF x = k THEN v ELSE d[x]]
Has(d, k) == k \in DOMAIN d

Contains(text, part) == \E i \in 1..Len(text) : text[i] = part

Chars == {" ", "J"}
Strings(n) == UNION {[1..m -> Chars] : m \in 0..n}

RECURSIVE LStrip(_)
LStrip(s) == IF Len(s) > 0 /\ Head(s) = " " THEN LStrip(Tail(s)) ELSE s
RECURSIVE RStrip(_)
RStrip(s) == IF Len(s) > 0 /\ s[Len(s)] = " " THEN RStrip(SubSeq(s, 1, Len(s) - 1)) ELSE s
\* the text as it is, blanks included
Untrimmed(s) == s

\* str.strip()
Strip(s) == RStrip(LStrip(s))

(***************************************************************************)
(* Requests.  params["arguments"]["text_input"] is absent, JSON null or a  *)
(* string.                                                                 *)
(***************************************************************************)
ReqIds == 1..MaxReqId
Methods == {"initialize", "tools/list", "tools/call", "resources/list"}
ArgValues == {[kind |-> "missing", s |-> <<>>], [kind |-> "null", s |-> <<>>]}
             \cup {[kind |-> "str", s |-> t] : t \in Strings(MaxTextLen)}

\* params.get("text_input", ""): None for JSON null, "" for an absent key
GetTextInput(arg) == [isNone |-> arg.kind = "null", s |-> arg.s]
\* a check for None alone
NotNone(v) == ~v.isNone
\* Python truthiness of that value
Truthy(v) == ~v.isNone /\ Len(v.s) > 0

(***************************************************************************)
(* models.MCPResponse: every field defaults to None.                       *)
(***************************************************************************)
MCPResponse(id, result, error, debug_response) ==
    [id |-> id, result |-> result, error |-> error, debug_response |-> debug_response]

TextResult(text) == [kind |-> "text", text |-> text, isError |-> FALSE]
ContentResult(text, isError) == [kind |-> "content", text |-> text, isError |-> isError]

\* A time in the trace: the literal 0 a trace is initialised with, or the
\* elapsed wall-clock time measured for a stage or call (the clock itself is
\* not modelled).
ZeroTime == [measured |-> FALSE]
Elapsed == [measured |-> TRUE]

(***************************************************************************)
(* External collaborators.  Every one is a nondeterministic outcome the    *)
(* action that makes the call draws with \E.                               *)
(***************************************************************************)
\* One external call: which collaborator, what for, and whether it succeeded.
Call(op, detail, ok) == [op |-> op, detail |-> detail, ok |-> ok]
PromptCall(prompt) == Call("prompt", prompt.key, prompt.kind # "error")
\* an LLM invocation, with the kind of text it was given as system prompt
LlmCall(promptKind, ok) == Call("llm", promptKind, ok)
DbCallsOk == <<Call("db", "connect", TRUE), Call("db", "execute", TRUE), Call("db", "close", TRUE)>>
DbCallsConnectFail == <<Call("db", "connect", FALSE)>>
\* the statement failed and nothing closed the connection
DbCallsExecuteFail == <<Call("db", "connect", TRUE), Call("db", "execute", FALSE)>>
\* the statement failed and the handler closed the connection
DbCallsExecuteFailClosed == <<Call("db", "connect", TRUE), Call("db", "execute", FALSE),
                              Call("db", "close", TRUE)>>

\* Prompt store: 200 with a template, 200 with an empty prompt_text, another
\* status, or no answer at all.
PromptOutcomes == {"ok", "empty", "status", "exception"}

\* utils/system_prompt.get_system_prompt: data["prompt_text"] as it is (a
\* template or the empty string), or an error string
\* "システムプロンプトが取得できませんでした (key: ..., status|error: ...)"; never raises.
get_system_prompt(prompt_key, outcome) ==
    IF outcome = "ok"
    THEN [kind |-> "template", key |-> prompt_key, why |-> "none"]
    ELSE IF outcome = "empty"
    THEN [kind |-> "empty", key |-> prompt_key, why |-> "none"]
    ELSE IF outcome = "status"
    THEN [kind |-> "error", key |-> prompt_key, why |-> "status"]
    ELSE [kind |-> "error", key |-> prompt_key, why |-> "error"]

\* An LLM answer is a record tagged by k.  The gateway's own failure text.
\* "LLMエラー: <exception>"
LLMErrorText == [k |-> "llm_error"]

\* LLMUtil.call_llm_simple / call_claude: the model's text, or, when the
\* invocation or the decoding of its body fails, the error text returned as
\* if it were model output.  Never raises.
call_llm_simple(ok, answer) == IF ok THEN answer ELSE LLMErrorText

\* a gateway whose handler lets the exception of the invocation through
call_claude_reraising(ok, answer) == IF ok THEN answer ELSE [k |-> "raise"]

call_claude(ok, answer) == IF ok THEN answer ELSE LLMErrorText

\* The products table (and the products_with_category view), in primary-key
\* order, which here is also (risk_level, product_name) order.
Catalog == <<
    [product_id |-> 1, product_code |-> "JP001", product_name |-> <<"J">>,
     risk_level |-> 1, category_name |-> "bond"],
    [product_id |-> 2, product_code |-> "US002", product_name |-> <<"j", " ", "J">>,
     risk_level |-> 2, category_name |-> "stock"] >>

Range(s) == {s[i] : i \in 1..Len(s)}

Min(a, b) == IF a <= b THEN a ELSE b

\* Database outcomes of one connect + execute.
DbOutcomes == {"ok", "connect_fail", "execute_fail"}
ConnectError == "could not connect to server"
StatementError == "relation does not exist"

\* the str of an LLM answer, as message parts
TextOf(answer) ==
    IF answer.k = "text" THEN answer.text
    ELSE IF answer.k = "llm_error" THEN <<"LLM error: ", "bedrock failure">>
    ELSE <<answer.k>>

\* what the model answers when asked for free text: a summary, or blanks only
TextAnswers == {[k |-> "text", text |-> <<"SUMMARY">>], [k |-> "text", text |-> <<" ">>]}

(***************************************************************************)
(* tools/product_search.py: the id-list tool get_product_details_byid.     *)
(***************************************************************************)
\* "text_input が必要です"
InputRequired == "text_input ga hitsuyou desu"
\* "商品IDが見つかりません"
ProductIdNotFound == "product id not found"
\* "指定されたIDの商品が見つかりません"
NoProductForIds == "no product for the given ids"
\* "商品詳細取得中にエラーが発生しました: "
ByIdErrorPrefix == "error while getting product details: "
\* "商品ID抽出でエラーが発生しました: "
IdExtractErrorPrefix == "error in product id extraction: "
\* "パースエラーが発生しました"
ParseErrorDefault == "a parse error occurred"

\* Elements of a list literal in the model's answer.
IntElem(n) == [t |-> "int", v |-> n]
DigitsElem(n) == [t |-> "digits", v |-> n]   \* the str of decimal digits of n
WordElem == [t |-> "word", v |-> 0]          \* a str that is not all digits
FloatElem == [t |-> "float", v |-> 1]
BoolElem == [t |-> "bool", v |-> 1]
\* a str of one non-decimal digit character such as a superscript two:
\* str.isdigit() is True for it and int() raises ValueError
NonDecimalDigitElem == [t |-> "nondecimal", v |-> 2]

\* What the model answers to the id-extraction prompt.
IdAnswers == {
    [k |-> "list", elems |-> <<IntElem(1), IntElem(2)>>],
    [k |-> "list", elems |-> <<IntElem(1), IntElem(3)>>],
    [k |-> "list", elems |-> <<IntElem(3)>>],
    [k |-> "list", elems |-> <<IntElem(1), IntElem(8)>>],
    [k |-> "list", elems |-> <<DigitsElem(2), IntElem(-1), WordElem, IntElem(2)>>],
    [k |-> "list", elems |-> <<FloatElem, BoolElem>>],
    [k |-> "list", elems |-> <<IntElem(1), NonDecimalDigitElem>>],
    [k |-> "list", elems |-> <<>>],
    [k |-> "none"],
    [k |-> "prose"],
    [k |-> "deep"] }

\* isinstance(id, (int, str)) and str(id).isdigit()   (bool is an int, str(True) = "True")
IsDigitElem(e) == \/ (e.t = "int" /\ e.v >= 0)
                  \/ e.t = "digits"
                  \/ e.t = "nondecimal"

\* ast.literal_eval(response.strip()) and the isinstance check of lines 113-116
LiteralEval(answer) ==
    IF answer.k = "list" THEN [ok |-> TRUE, exc |-> "none", msg |-> "none"]
    ELSE IF answer.k = "none"
    THEN [ok |-> FALSE, exc |-> "ValueError", msg |-> "answer is not a list"]
    ELSE IF answer.k = "deep"
    THEN [ok |-> FALSE, exc |-> "RecursionError", msg |-> "maximum recursion depth exceeded"]
    ELSE [ok |-> FALSE, exc |-> "SyntaxError", msg |-> "invalid syntax"]

\* int(id) over the elements that pass the isdigit test (line 119)
IntConversion(elems) ==
    IF \E i \in 1..Len(elems) : elems[i].t = "nondecimal"
    THEN [ok |-> FALSE, exc |-> "ValueError", msg |-> "invalid literal for int() with base 10"]
    ELSE [ok |-> TRUE, exc |-> "none", msg |-> "none"]

\* CPython's set of small non-negative ints (hash(n) = n): a table of
\* 2^k slots, [slot \in 0..mask |-> key], SetUnused in a slot without a key.
SetUnused == 0 - 1
EmptySetTable == [slot \in 0..7 |-> SetUnused]

\* the slot of a key: up to nine linear probes when they fit below the mask,
\* then i = (i * 5 + 1 + perturb) & mask with perturb >>= 5
RECURSIVE SetSlot(_, _, _, _)
SetSlot(table, key, i, perturb) ==
    LET mask == Cardinality(DOMAIN table) - 1
        probes == IF i + 9 <= mask THEN 9 ELSE 0
        hits == {j \in i..(i + probes) : table[j] = SetUnused \/ table[j] = key}
    IN IF hits # {}
       THEN CHOOSE j \in hits : \A h \in hits : j <= h
       ELSE SetSlot(table, key, (i * 5 + 1 + (perturb \div 32)) % (mask + 1), perturb \div 32)

\* set_table_resize: the keys of the old table, in slot order, put into the new one
RECURSIVE SetRebuilt(_, _, _)
SetRebuilt(old, slot, new) ==
    IF slot \notin DOMAIN old THEN new
    ELSE IF old[slot] = SetUnused THEN SetRebuilt(old, slot + 1, new)
    ELSE LET size == Cardinality(DOMAIN new)
             at == SetSlot(new, old[slot], old[slot] % size, old[slot])
         IN SetRebuilt(old, slot + 1, [new EXCEPT ![at] = old[slot]])

\* the smallest table size above minused, from 8 by doubling
RECURSIVE SetSizeFor(_, _)
SetSizeFor(size, minused) == IF size > minused THEN size ELSE SetSizeFor(2 * size, minused)

\* set_add_entry: the key in its slot; the table grows to the size for
\* 4 * used once fill * 5 >= mask * 3
SetAdd(table, key) ==
    LET size == Cardinality(DOMAIN table)
        at == SetSlot(table, key, key % size, key)
        added == [table EXCEPT ![at] = key]
        fill == Cardinality({j \in DOMAIN added : added[j] # SetUnused})
    IN IF table[at] = key THEN table
       ELSE IF fill * 5 < (size - 1) * 3 THEN added
       ELSE SetRebuilt(added, 0, [slot \in 0..(SetSizeFor(8, fill * 4) - 1) |-> SetUnused])

\* set(list): the keys added in list order
RECURSIVE SetOfList(_, _)
SetOfList(list, table) ==
    IF list = <<>> THEN table ELSE SetOfList(Tail(list), SetAdd(table, Head(list)))

\* list(set): the keys in slot order
RECURSIVE ListOfSet(_, _)
ListOfSet(table, slot) ==
    IF slot \notin DOMAIN table THEN <<>>
    ELSE (IF table[slot] = SetUnused THEN <<>> ELSE <<table[slot]>>)
         \o ListOfSet(table, slot + 1)

\* list(set([int(id) for id in product_ids if ...])): the ids in the order
\* of the set's table
DistinctIds(elems) ==
    LET kept == SelectSeq(elems, IsDigitElem)
        ints == [i \in 1..Len(kept) |-> kept[i].v]
    IN ListOfSet(SetOfList(ints, EmptySetTable), 0)

\* extract_product_ids_with_llm: the ids, the trace and the calls made
extract_product_ids_with_llm(text_input, debug_info, promptOutcome, llmOk, answer) ==
    LET system_prompt == get_system_prompt("get_product_details_byid_extract_ids", promptOutcome)
        d1 == Put(debug_info, "extract_ids_prompt", system_prompt)
        resp == call_llm_simple(llmOk, answer)
        d2 == Put(Put(d1, "extract_ids_llm_response", resp),
                  "extract_ids_execution_time_ms", Elapsed)
        made == <<PromptCall(system_prompt), LlmCall(system_prompt.kind, llmOk)>>
        parsed == LiteralEval(resp)
        ev == IF parsed.ok THEN IntConversion(resp.elems) ELSE parsed
    IN  IF ev.ok
        THEN LET product_ids == DistinctIds(resp.elems)
             IN [ids |-> product_ids,
                 debug |-> Put(Put(d2, "extract_ids_parsed_successfully", TRUE),
                               "extract_ids_final_result", product_ids),
                 calls |-> made]
        ELSE IF ev.exc \in {"ValueError", "SyntaxError", "TypeError"}
        THEN [ids |-> <<>>,
              debug |-> Put(Put(Put(d2, "extract_ids_parsed_successfully", FALSE),
                                "extract_ids_parse_error", ev.msg),
                            "extract_ids_final_result",
                            <<"parse error: ", ev.msg, " (LLM answer: ", resp.k, ")">>),
              calls |-> made]
        ELSE [ids |-> <<>>,
              debug |-> Put(Put(d2, "extract_ids_error", ev.msg),
                            "extract_ids_final_result", <<"system error: ", ev.msg>>),
              calls |-> made]

\* a test that takes a missing flag for a failed parse: .get(...) is not True
ParseNotFlaggedSucceeded(debug_info) ==
    ~Has(debug_info, "extract_ids_parsed_successfully")
    \/ debug_info["extract_ids_parsed_successfully"] = FALSE

\* debug_info.get("extract_ids_parsed_successfully") == False
ParseFlaggedFailed(debug_info) ==
    Has(debug_info, "extract_ids_parsed_successfully")
    /\ debug_info["extract_ids_parsed_successfully"] = FALSE

\* the SQL text and parameters of execute_product_search_query (lines
\* 151-152): query_params = [product_ids] holds the caller's list itself,
\* and no statement writes to it; product_ids is the list as the lines leave it
BuildIdQuery(product_ids) ==
    [query |-> <<"SELECT * FROM products WHERE product_id = ANY(", "%s", ")">>,
     params |-> <<product_ids>>,
     product_ids |-> product_ids]

\* a lookup that yields rows only when every id of the list has one
SelectByIdsAllOrNothing(product_ids) ==
    IF Range(product_ids) \subseteq {Catalog[i].product_id : i \in 1..Len(Catalog)}
    THEN SelectSeq(Catalog, LAMBDA r : r.product_id \in Range(product_ids))
    ELSE <<>>

\* product_id = ANY(%s) over the catalog
SelectByIds(product_ids) ==
    SelectSeq(Catalog, LAMBDA r : r.product_id \in Range(product_ids))

\* format_product_search_results: the text returned, the trace and the calls made
format_product_search_results(products, debug_info, promptOutcome, llmOk, answer) ==
    IF ParseFlaggedFailed(debug_info)
    THEN [text |-> <<IdExtractErrorPrefix>> \o
                   (IF Has(debug_info, "extract_ids_final_result")
                    THEN debug_info["extract_ids_final_result"]
                    ELSE <<ParseErrorDefault>>),
          debug |-> debug_info,
          calls |-> <<>>]
    ELSE LET system_prompt == get_system_prompt("format_product_search_results", promptOutcome)
             d1 == Put(Put(debug_info, "format_prompt", system_prompt),
                       "format_llm_request", [prompt |-> system_prompt, products |-> products])
             resp == call_llm_simple(llmOk, answer)
             d2 == Put(Put(d1, "format_llm_response", resp),
                       "format_execution_time_ms", Elapsed)
         IN [text |-> Strip(TextOf(resp)),
             debug |-> d2,
             calls |-> <<PromptCall(system_prompt), LlmCall(system_prompt.kind, llmOk)>>]

\* the catch-all of get_product_details_byid (lines 80-92)
ByIdCatchAll(debug_info, e) ==
    LET d == Put(Put(debug_info, "error", e), "execution_time_ms", Elapsed)
        error_message == <<ByIdErrorPrefix, e>>
    IN MCPResponse(None, Some(TextResult(error_message)), Some(error_message), Some(d))

(***************************************************************************)
(* tools_manager.ToolsManager over tools_config.json, and main.py.         *)
(***************************************************************************)
\* config["tools"]: the registered tools.  "legacy_search" is an entry whose
\* module_path no longer imports (get_tool_function returns None for it).
ToolsConfig == <<
    [name |-> "get_product_details_byid", importable |-> TRUE],
    [name |-> "filter_products_by_risk_and_type", importable |-> TRUE],
    [name |-> "search_products_by_name_fuzzy", importable |-> TRUE],
    [name |-> "legacy_search", importable |-> FALSE] >>

\* params.get("name"): a registered name, an unregistered one, the tool of
\* the other server, or no name at all ("None" once formatted)
ToolNames == {"get_product_details_byid", "filter_products_by_risk_and_type",
              "search_products_by_name_fuzzy", "legacy_search",
              "get_product_details", "no_such_tool", "None"}

\* a registry that knows every name
AnyToolValid(tool_name) == TRUE

\* ToolsManager.is_valid_tool
is_valid_tool(tool_name) == \E i \in 1..Len(ToolsConfig) : ToolsConfig[i].name = tool_name

\* ToolsManager.get_tool_function: Some(function name), or None
get_tool_function(tool_name) ==
    IF \E i \in 1..Len(ToolsConfig) :
          ToolsConfig[i].name = tool_name /\ ToolsConfig[i].importable
    THEN Some(tool_name)
    ELSE None

ServerInfoResult == [kind |-> "server_info", text |-> <<"ProductMaster MCP Server", "2.0.0">>,
                     isError |-> FALSE]
\* get_mcp_tools_format / list_available_tools: static tool metadata
ToolsListResult(srv) ==
    [kind |-> "tools",
     text |-> IF srv = "main" THEN [i \in 1..Len(ToolsConfig) |-> ToolsConfig[i].name]
              ELSE <<"get_product_details">>,
     isError |-> FALSE]

\* main.mcp_endpoint, the branches that answer without running a tool
\* (lines 67-88 and 107-128); None when the request is dispatched to a tool
MainDirectResponse(req) ==
    IF req.method = "initialize"
    THEN Some(MCPResponse(Some(req.id), Some(ServerInfoResult), None, None))
    ELSE IF req.method = "tools/list"
    THEN Some(MCPResponse(Some(req.id), Some(ToolsListResult("main")), None, None))
    ELSE IF req.method = "tools/call"
    THEN IF is_valid_tool(req.name)
         THEN IF IsSome(get_tool_function(req.name))
              THEN None
              ELSE LET error_msg == <<"Tool function not found: ", req.name>>
                   IN Some(MCPResponse(Some(req.id), Some(TextResult(error_msg)),
                                       Some(error_msg), None))
         ELSE LET error_msg == <<"Unknown tool: ", req.name>>
              IN Some(MCPResponse(Some(req.id), Some(TextResult(error_msg)),
                                  Some(error_msg), None))
    ELSE LET error_msg == <<"Unknown method: ", req.method>>
         IN Some(MCPResponse(Some(req.id), Some(TextResult(error_msg)), Some(error_msg), None))

\* the tool's response handed back as the tool built it
ToolResponseAsBuilt(req, tool_response) == tool_response

\* main.mcp_endpoint lines 104-106: tool_response.id = request.id
MainToolResponse(req, tool_response) == [tool_response EXCEPT !.id = Some(req.id)]

\* request.params of a request: the dict with "name" (absent when the request
\* names no tool) and "arguments" (the dict the tool functions are handed)
RequestParams(req) ==
    (IF req.name = "None" THEN EmptyDict ELSE [name |-> req.name])
    @@ [arguments |-> req.arg]

\* main.mcp_endpoint lines 130-143: "サーバーエラー: <exception>"
\* e is the exception caught: [type |-> type(e).__name__, msg |-> str(e)]
MainExceptionResponse(req, e) ==
    MCPResponse(Some(req.id), Some(TextResult(<<"server error: ", e.msg>>)), None,
                Some([error |-> e.msg, error_type |-> e.type,
                      method |-> req.method, params |-> RequestParams(req)]))

\* the pipeline position at which a tool function starts
ToolEntry(tool_name) ==
    IF tool_name = "get_product_details_byid" THEN "byid_start"
    ELSE IF tool_name = "filter_products_by_risk_and_type" THEN "risk_start"
    ELSE IF tool_name = "search_products_by_name_fuzzy" THEN "fuzzy_start"
    ELSE "details_start"

(***************************************************************************)
(* The state machine.                                                      *)
(***************************************************************************)
NoRequest == [id |-> 0, method |-> "none", name |-> "None",
              arg |-> [kind |-> "missing", s |-> <<>>]]

Init ==
    /\ pc = "idle"
    /\ server = "main"
    /\ request = NoRequest
    /\ response = None
    /\ toolResp = None
    /\ raised = None
    /\ debug = EmptyDict
    /\ calls = <<>>
    /\ conns = 0
    /\ filter = None
    /\ query = <<>>
    /\ query_params = <<>>
    /\ rows = <<>>
    /\ invoked = <<>>

\* A request arrives at POST /mcp of one of the two servers.
Receive ==
    /\ pc = "idle"
    /\ \E srv \in {"main", "product"}, id \in ReqIds, m \in Methods,
          n \in ToolNames, a \in ArgValues :
          /\ server' = srv
          /\ request' = [id |-> id, method |-> m, name |-> n, arg |-> a]
    /\ pc' = "endpoint"
    /\ response' = None
    /\ toolResp' = None
    /\ raised' = None
    /\ debug' = EmptyDict
    /\ calls' = <<>>
    /\ filter' = None
    /\ query' = <<>>
    /\ query_params' = <<>>
    /\ rows' = <<>>
    /\ invoked' = <<>>
    /\ conns' = 0

\* main.mcp_endpoint up to the await of the tool function.  For a registered
\* tool get_tool_function reads the entry's module_path and function_name and
\* imports the module (tools_manager.py 55-57); its handler catches
\* ImportError and AttributeError only, so the KeyError of an entry that
\* tools_config.json gives no module_path leaves get_tool_function and is
\* caught by the endpoint's own handler (main.py 130).
MainEndpoint ==
    /\ pc = "endpoint"
    /\ server = "main"
    /\ LET direct == MainDirectResponse(request)
       IN IF IsSome(direct)
          THEN /\ response' = direct
               /\ pc' = "done"
               /\ UNCHANGED <<invoked, raised>>
          ELSE \E entry \in {"complete", "no_module_path"} :
                  IF entry = "no_module_path"
                  THEN /\ raised' = Some([type |-> "KeyError", msg |-> "'module_path'"])
                       /\ pc' = "tool_return"
                       /\ UNCHANGED <<invoked, response>>
                  ELSE /\ invoked' = Append(invoked, Get(get_tool_function(request.name)))
                       /\ pc' = ToolEntry(request.name)
                       /\ UNCHANGED <<response, raised>>
    /\ UNCHANGED <<server, request, toolResp, debug, calls, conns, filter,
                   query, query_params, rows>>

\* main.mcp_endpoint after the tool function returned, or after it or
\* get_tool_function raised
MainEndpointReturn ==
    /\ pc = "tool_return"
    /\ server = "main"
    /\ response' = IF IsSome(raised)
                   THEN Some(MainExceptionResponse(request, Get(raised)))
                   ELSE Some(MainToolResponse(request, Get(toolResp)))
    /\ pc' = "done"
    /\ UNCHANGED <<server, request, toolResp, raised, debug, calls, conns, filter,
                   query, query_params, rows, invoked>>

\* The response is sent; the request's objects are dropped.
SendResponse ==
    /\ pc = "done"
    /\ pc' = "idle"
    /\ server' = "main"
    /\ request' = NoRequest
    /\ response' = None
    /\ toolResp' = None
    /\ raised' = None
    /\ debug' = EmptyDict
    /\ calls' = <<>>
    /\ filter' = None
    /\ query' = <<>>
    /\ query_params' = <<>>
    /\ rows' = <<>>
    /\ invoked' = <<>>
    /\ conns' = 0

(***************************************************************************)
(* get_product_details_byid, stage by stage.                               *)
(***************************************************************************)
\* lines 16-32: start_time, debug_info = {}, the text_input check
ByIdStart ==
    /\ pc = "byid_start"
    /\ debug' = EmptyDict
    /\ IF ~Truthy(GetTextInput(request.arg))
       THEN /\ toolResp' = Some(MCPResponse(None, Some(TextResult(<<InputRequired>>)),
                                            Some(<<InputRequired>>), Some(EmptyDict)))
            /\ pc' = "tool_return"
       ELSE /\ pc' = "byid_extract"
            /\ UNCHANGED toolResp
    /\ UNCHANGED <<server, request, response, raised, calls, conns, filter,
                   query, query_params, rows, invoked>>

\* the id extraction with a prompt-store failure that leaves the tool as an
\* exception
ByIdExtractPromptRaises ==
    /\ pc = "byid_extract"
    /\ \E po \in {"status", "exception"} :
          calls' = Append(calls,
                          PromptCall(get_system_prompt("get_product_details_byid_extract_ids", po)))
    /\ raised' = Some([type |-> "ConnectError", msg |-> "prompt store unreachable"])
    /\ pc' = "tool_return"
    /\ UNCHANGED <<server, request, response, toolResp, debug, conns, filter, query,
                   query_params, rows, invoked>>

\* line 35 and lines 38-55: extract the ids; without ids, answer at once
ByIdExtract ==
    /\ pc = "byid_extract"
    /\ \E po \in PromptOutcomes, llmOk \in BOOLEAN, answer \in IdAnswers :
        LET x == extract_product_ids_with_llm(request.arg.s, debug, po, llmOk, answer)
            fmt == format_product_search_results(<<>>, x.debug, "ok", TRUE, answer)
        IN /\ calls' = calls \o x.calls
           /\ filter' = Some(x.ids)
           /\ IF Len(x.ids) = 0
              THEN IF ParseFlaggedFailed(x.debug)
                   THEN /\ debug' = Put(fmt.debug, "execution_time_ms", Elapsed)
                        /\ toolResp' = Some(MCPResponse(None, Some(TextResult(fmt.text)),
                                                        None, Some(debug')))
                        /\ pc' = "tool_return"
                   ELSE /\ debug' = x.debug
                        /\ toolResp' = Some(MCPResponse(None,
                                                Some(TextResult(<<ProductIdNotFound>>)),
                                                Some(<<ProductIdNotFound>>), Some(debug')))
                        /\ pc' = "tool_return"
              ELSE /\ debug' = x.debug
                   /\ pc' = "byid_query"
                   /\ UNCHANGED toolResp
    /\ UNCHANGED <<server, request, response, raised, conns, query, query_params,
                   rows, invoked>>

\* line 60, execute_product_search_query (lines 146-166), lines 62-66, and
\* the catch-all when the connection or the statement fails
ByIdQuery ==
    /\ pc = "byid_query"
    /\ \E db \in DbOutcomes :
        LET q == BuildIdQuery(Get(filter))
            traced == Put(Put(debug, "search_query", q.query), "search_params", q.params)
        IN IF db = "connect_fail"
           THEN /\ calls' = calls \o DbCallsConnectFail
                /\ toolResp' = Some(ByIdCatchAll(debug, ConnectError))
                /\ debug' = Get(toolResp'[1].debug_response)
                /\ pc' = "tool_return"
                /\ UNCHANGED <<conns, query, query_params, rows>>
           ELSE IF db = "execute_fail"
           THEN /\ calls' = calls \o DbCallsExecuteFail
                /\ conns' = conns + 1
                /\ query' = q.query
                /\ query_params' = q.params
                /\ toolResp' = Some(ByIdCatchAll(traced, StatementError))
                /\ debug' = Get(toolResp'[1].debug_response)
                /\ pc' = "tool_return"
                /\ UNCHANGED rows
           ELSE /\ calls' = calls \o DbCallsOk
                /\ query' = q.query
                /\ query_params' = q.params
                /\ rows' = SelectByIds(q.params[1])
                /\ debug' = traced
                /\ UNCHANGED conns
                /\ IF Len(rows') = 0
                   THEN /\ toolResp' = Some(MCPResponse(None,
                                               Some(TextResult(<<NoProductForIds>>)),
                                               None, Some(traced)))
                        /\ pc' = "tool_return"
                   ELSE /\ pc' = "byid_format"
                        /\ UNCHANGED toolResp
    /\ UNCHANGED <<server, request, response, raised, filter, invoked>>

\* lines 69-78 with format_product_search_results (lines 168-202)
ByIdFormat ==
    /\ pc = "byid_format"
    /\ \E po \in PromptOutcomes, llmOk \in BOOLEAN, answer \in TextAnswers :
        LET fmt == format_product_search_results(rows, debug, po, llmOk, answer)
        IN /\ calls' = calls \o fmt.calls
           /\ debug' = Put(fmt.debug, "execution_time_ms", Elapsed)
           /\ toolResp' = Some(MCPResponse(None, Some(TextResult(fmt.text)), None,
                                           Some(debug')))
    /\ pc' = "tool_return"
    /\ UNCHANGED <<server, request, response, raised, conns, filter, query,
                   query_params, rows, invoked>>

(***************************************************************************)
(* utils/database.py and tools/risk_filter.py: the risk/category tool.     *)
(***************************************************************************)
\* "検索条件の抽出に失敗しました"
ConditionExtractFailed == "failed to extract the search conditions"
\* "条件抽出失敗"
ConditionExtractError == "condition extraction failed"
\* "商品フィルタリング処理中にエラーが発生しました: "
RiskErrorPrefix == "error while filtering products: "

\* a JSON field of the conditions object: null or a list
JNull == [null |-> TRUE, list |-> <<>>]
JList(l) == [null |-> FALSE, list |-> l]
JDict(d) == [t |-> "dict", d |-> d]

\* What the model answers to the condition-extraction prompt: a JSON object
\* (with lists, empty lists, nulls or nothing in it), another JSON value, or prose.
RiskAnswers == {
    [k |-> "json", v |-> JDict([risk_levels |-> JList(<<1>>), category_types |-> JList(<<"bond">>)])],
    [k |-> "json", v |-> JDict([risk_levels |-> JList(<<1, 2>>)])],
    [k |-> "json", v |-> JDict([category_types |-> JList(<<"stock", "gold">>)])],
    [k |-> "json", v |-> JDict([risk_levels |-> JList(<<>>), category_types |-> JNull])],
    [k |-> "json", v |-> JDict(EmptyDict)],
    [k |-> "json", v |-> [t |-> "null"]],
    [k |-> "json", v |-> [t |-> "list"]],
    [k |-> "prose"] }

\* json.loads(response.strip()): the value, or JSONDecodeError
JsonLoads(answer) ==
    IF answer.k = "json" THEN [ok |-> TRUE, v |-> answer.v]
    ELSE [ok |-> FALSE, v |-> [t |-> "null"]]

\* Python truthiness of a parsed JSON value ("if not conditions")
JsonTruthy(v) ==
    IF v.t = "dict" THEN DOMAIN v.d # {}
    ELSE IF v.t = "list" THEN TRUE      \* the non-empty list of RiskAnswers
    ELSE FALSE

\* conditions.get(key) is truthy
FieldSet(conditions, key) ==
    /\ key \in DOMAIN conditions.d
    /\ ~conditions.d[key].null
    /\ Len(conditions.d[key].list) > 0

\* ",".join(["%s"] * n)
RECURSIVE Placeholders(_)
Placeholders(n) ==
    IF n = 0 THEN <<>>
    ELSE IF n = 1 THEN <<"%s">>
    ELSE <<"%s", ",">> \o Placeholders(n - 1)

\* the number of %s placeholders of a SQL text
RECURSIVE CountPlaceholders(_)
CountPlaceholders(q) ==
    IF q = <<>> THEN 0
    ELSE (IF Head(q) = "%s" THEN 1 ELSE 0) + CountPlaceholders(Tail(q))

RiskBaseQuery ==
    "SELECT product_code AS id, product_name, category_name, risk_level, description FROM products_with_category WHERE 1=1"

\* a builder that takes the caller's risk_levels list for its params
\* (params = conditions["risk_levels"]) in place of copying its elements into
\* a list of its own: params.extend(types) then writes to the caller's list
build_risk_filter_query_aliasing(conditions) ==
    LET s0 == [base_query |-> <<RiskBaseQuery>>, params |-> <<>>, conditions |-> conditions]
        s1 == IF FieldSet(s0.conditions, "risk_levels")
              THEN LET risk_levels == s0.conditions.d["risk_levels"].list
                       placeholders == Placeholders(Len(risk_levels))
                   IN [s0 EXCEPT !.base_query = @ \o <<" AND risk_level IN (">>
                                                  \o placeholders \o <<")">>,
                                 !.params = risk_levels]
              ELSE s0
        s2 == IF FieldSet(s1.conditions, "category_types")
              THEN LET types == s1.conditions.d["category_types"].list
                       placeholders == Placeholders(Len(types))
                       extended == s1.params \o types
                   IN [s1 EXCEPT !.base_query = @ \o <<" AND category_name IN (">>
                                                  \o placeholders \o <<")">>,
                                 !.params = extended,
                                 !.conditions =
                                     IF FieldSet(s1.conditions, "risk_levels")
                                     THEN [@ EXCEPT !.d["risk_levels"].list = extended]
                                     ELSE @]
              ELSE s1
    IN [query |-> s2.base_query \o <<" ORDER BY risk_level, product_name", " LIMIT 20">>,
        params |-> s2.params,
        conditions |-> s2.conditions]

\* build_risk_filter_query (lines 164-185), statement by statement over the
\* objects it handles: its locals base_query and params, and the caller's
\* conditions dict, which Python passes by reference.  params is a new list
\* (line 167) and params.extend(x) copies the elements of x into it (lines
\* 174, 181); conditions is only read.  The result carries the SQL text, the
\* parameters, and the conditions object as the call leaves it.
build_risk_filter_query(conditions) ==
    LET s0 == [base_query |-> <<RiskBaseQuery>>, params |-> <<>>, conditions |-> conditions]
        s1 == IF FieldSet(s0.conditions, "risk_levels")
              THEN LET risk_levels == s0.conditions.d["risk_levels"].list
                       placeholders == Placeholders(Len(risk_levels))
                   IN [s0 EXCEPT !.base_query = @ \o <<" AND risk_level IN (">>
                                                  \o placeholders \o <<")">>,
                                 !.params = @ \o risk_levels]
              ELSE s0
        s2 == IF FieldSet(s1.conditions, "category_types")
              THEN LET types == s1.conditions.d["category_types"].list
                       placeholders == Placeholders(Len(types))
                   IN [s1 EXCEPT !.base_query = @ \o <<" AND category_name IN (">>
                                                  \o placeholders \o <<")">>,
                                 !.params = @ \o types]
              ELSE s1
    IN [query |-> s2.base_query \o <<" ORDER BY risk_level, product_name", " LIMIT 20">>,
        params |-> s2.params,
        conditions |-> s2.conditions]

\* The row cap a SQL text carries: Some(n), or None without a LIMIT clause.
RiskRowCap == 20
LimitOf(q) ==
    IF Len(q) > 0 /\ q[Len(q)] = " LIMIT 20" THEN Some(RiskRowCap)
    ELSE IF Len(q) > 0 /\ q[Len(q)] = " LIMIT 50" THEN Some(50)
    ELSE None

Capped(q, result) ==
    IF IsSome(LimitOf(q)) THEN SubSeq(result, 1, Min(Len(result), Get(LimitOf(q))))
    ELSE result

\* the placeholders of the IN (...) group a fragment opens
GroupSize(q, frag) ==
    IF \A i \in 1..Len(q) : q[i] # frag THEN 0
    ELSE LET i == CHOOSE x \in 1..Len(q) : q[x] = frag
             j == CHOOSE y \in (i + 1)..Len(q) :
                      q[y] = ")" /\ \A z \in (i + 1)..(y - 1) : q[z] # ")"
         IN Cardinality({z \in (i + 1)..(j - 1) : q[z] = "%s"})

\* the database's answer to a risk-filter query over products_with_category
RunRiskQuery(q, params) ==
    LET nr == GroupSize(q, " AND risk_level IN (")
        nc == GroupSize(q, " AND category_name IN (")
        risks == Range(SubSeq(params, 1, nr))
        cats == Range(SubSeq(params, nr + 1, nr + nc))
        hit(r) == /\ (nr > 0 => r.risk_level \in risks)
                  /\ (nc > 0 => r.category_name \in cats)
        view(r) == [id |-> r.product_code, product_name |-> r.product_name,
                    category_name |-> r.category_name, risk_level |-> r.risk_level]
        matched == SelectSeq(Catalog, hit)
    IN Capped(q, [i \in 1..Len(matched) |-> view(matched[i])])

\* the connection is open and no statement has reached the database
DbCallsConnected == <<Call("db", "connect", TRUE)>>
\* what cursor.mogrify raises when placeholders and parameters differ in number
\* IndexError
MogrifyTooFewParams == "list index out of range"
\* TypeError
MogrifyTooManyParams == "not all arguments converted during string formatting"

\* utils/database.execute_query with a trace: results or the exception that
\* propagates, the trace, the calls made and the connections left open
execute_query(q, params, debug_info, db) ==
    LET traced == Put(Put(debug_info, "step2_sql_execution.sql_query", Some(q)),
                      "step2_sql_execution.sql_params", Some(params))
        bound == Put(traced, "step2_sql_execution.executable_sql",
                     Some([sql |-> q, bound |-> params]))
    IN IF db = "connect_fail"
       THEN [exc |-> Some(ConnectError), results |-> <<>>, debug |-> debug_info,
             calls |-> DbCallsConnectFail, leaked |-> 0]
       ELSE IF Len(params) > 0 /\ Len(params) # CountPlaceholders(q)
       \* cursor.mogrify (line 31) raises before executable_sql is written
       \* and before cursor.execute
       THEN [exc |-> Some(IF Len(params) < CountPlaceholders(q)
                          THEN MogrifyTooFewParams ELSE MogrifyTooManyParams),
             results |-> <<>>, debug |-> traced,
             calls |-> DbCallsConnected, leaked |-> 1]
       \* without parameters the text is executed as it is (lines 36-41)
       ELSE IF db = "execute_fail" \/ (Len(params) = 0 /\ CountPlaceholders(q) # 0)
       THEN [exc |-> Some(StatementError), results |-> <<>>, debug |-> bound,
             calls |-> DbCallsExecuteFail, leaked |-> 1]
       ELSE LET results == RunRiskQuery(q, params)
            IN [exc |-> None, results |-> results,
                debug |-> Put(bound, "step2_sql_execution.results_count", Len(results)),
                calls |-> DbCallsOk,
                leaked |-> 0]

\* get_active_categories: the category names, or the fallback list when the
\* query fails; the exception is swallowed here
get_active_categories(db) ==
    IF db = "ok"
    THEN [categories |-> <<"bond", "stock">>,
          calls |-> DbCallsOk,
          leaked |-> 0]
    ELSE IF db = "connect_fail"
    THEN [categories |-> <<"bond", "fund", "stock", "other">>,
          calls |-> DbCallsConnectFail, leaked |-> 0]
    ELSE [categories |-> <<"bond", "fund", "stock", "other">>,
          calls |-> DbCallsExecuteFail, leaked |-> 1]

\* the tool_debug a call of filter_products_by_risk_and_type starts with
RiskInitialDebug(params) ==
    [k \in {"function_name", "input_params",
            "step1_extract_conditions.llm_request", "step1_extract_conditions.llm_response",
            "step1_extract_conditions.parsed_conditions",
            "step1_extract_conditions.execution_time_ms",
            "step2_sql_execution.sql_query", "step2_sql_execution.sql_params",
            "step2_sql_execution.executable_sql", "step2_sql_execution.results_count",
            "step2_sql_execution.execution_time_ms",
            "step3_format_results.llm_request", "step3_format_results.llm_response",
            "step3_format_results.execution_time_ms",
            "total_execution_time_ms", "error"} |->
        IF k = "function_name" THEN Some("filter_products_by_risk_and_type")
        ELSE IF k = "input_params" THEN Some(params)
        ELSE IF k = "step2_sql_execution.results_count" THEN 0
        ELSE IF k \in {"step1_extract_conditions.execution_time_ms",
                       "step2_sql_execution.execution_time_ms",
                       "step3_format_results.execution_time_ms",
                       "total_execution_time_ms"} THEN ZeroTime
        ELSE None]

\* extract_search_conditions_with_llm: Some(conditions) or None, the trace,
\* the calls made, the connections left open
extract_search_conditions_with_llm(text_input, tool_debug, catDb, promptOutcome, llmOk, answer) ==
    LET cats == get_active_categories(catDb)
        base_system_prompt ==
            get_system_prompt("filter_products_by_risk_and_type_extract_conditions", promptOutcome)
        d1 == Put(tool_debug, "step1_extract_conditions.llm_request",
                  Some([system |-> base_system_prompt, categories |-> cats.categories,
                        user |-> text_input]))
        resp == call_claude(llmOk, answer)
        d2 == Put(d1, "step1_extract_conditions.llm_response", Some(resp))
        parsed == JsonLoads(resp)
        made == cats.calls \o <<PromptCall(base_system_prompt),
                                LlmCall(base_system_prompt.kind, llmOk)>>
    IN IF parsed.ok
       THEN [conditions |-> Some(parsed.v),
             debug |-> Put(d2, "step1_extract_conditions.parsed_conditions", Some(parsed.v)),
             calls |-> made, leaked |-> cats.leaked]
       ELSE [conditions |-> None,
             debug |-> Put(d2, "step1_extract_conditions.parsed_conditions",
                           Some(<<"JSON parse error: ", "Expecting value">>)),
             calls |-> made, leaked |-> cats.leaked]

\* execute_sql_query: the rows, or [] when building or executing raised
execute_sql_query(conditions, tool_debug, db) ==
    IF conditions.t # "dict"
    THEN [results |-> <<>>, debug |-> tool_debug, calls |-> <<>>, leaked |-> 0,
          query |-> <<>>, params |-> <<>>, swallowed |-> Some("AttributeError")]
    ELSE LET b == build_risk_filter_query(conditions)
             r == execute_query(b.query, b.params, tool_debug, db)
         IN [results |-> r.results, debug |-> r.debug, calls |-> r.calls,
             leaked |-> r.leaked, query |-> b.query, params |-> b.params,
             swallowed |-> r.exc]

\* str(n) of a count
RECURSIVE DecimalText(_)
DecimalText(n) ==
    LET digit == <<"0", "1", "2", "3", "4", "5", "6", "7", "8", "9">>[(n % 10) + 1]
    IN IF n < 10 THEN <<digit>> ELSE Append(DecimalText(n \div 10), digit)

\* line 197: "検索結果: {len(results)}件の商品が見つかりました"
ResultsCountSentence(results) ==
    <<"search results: ">> \o DecimalText(Len(results)) \o <<" products found">>

\* format_results_with_llm: the text, the trace and the calls made.  With
\* an empty system prompt (lines 195-197) the count sentence is returned
\* without an LLM call and without a trace entry.
format_results_with_llm(results, original_text, conditions, tool_debug, promptOutcome, llmOk, answer) ==
    LET system_prompt ==
            get_system_prompt("filter_products_by_risk_and_type_format_results", promptOutcome)
        d1 == Put(tool_debug, "step3_format_results.llm_request",
                  Some([system |-> system_prompt, question |-> original_text,
                        conditions |-> conditions, results |-> results]))
        resp == call_claude(llmOk, answer)
    IN IF system_prompt.kind = "empty"
       THEN [text |-> ResultsCountSentence(results),
             debug |-> tool_debug,
             calls |-> <<PromptCall(system_prompt)>>]
       ELSE [text |-> Strip(TextOf(resp)),
             debug |-> Put(d1, "step3_format_results.llm_response", Some(resp)),
             calls |-> <<PromptCall(system_prompt), LlmCall(system_prompt.kind, llmOk)>>]

\* lines 12-50: start_time, tool_debug, the text_input check
RiskStart ==
    /\ pc = "risk_start"
    /\ debug' = RiskInitialDebug(request.arg)
    /\ IF ~Truthy(GetTextInput(request.arg))
       THEN /\ toolResp' = Some(MCPResponse(None, Some(TextResult(<<InputRequired>>)),
                                            Some(<<InputRequired>>), Some(debug')))
            /\ pc' = "tool_return"
       ELSE /\ pc' = "risk_categories"
            /\ UNCHANGED toolResp
    /\ UNCHANGED <<server, request, response, raised, calls, conns, filter,
                   query, query_params, rows, invoked>>

\* lines 112-117: STEP 1 up to its first suspension: get_active_categories
\* runs its query (connect, execute, close, without suspending) and the
\* coroutine then waits for the prompt store
RiskCategories ==
    /\ pc = "risk_categories"
    /\ \E catDb \in DbOutcomes :
        LET cats == get_active_categories(catDb)
        IN /\ calls' = calls \o cats.calls
           /\ conns' = conns + cats.leaked
    /\ pc' = "risk_extract"
    /\ UNCHANGED <<server, request, response, toolResp, raised, debug, filter,
                   query, query_params, rows, invoked>>

\* how the categories query of this request ended, from the calls it made
CategoriesOutcome(log) ==
    IF log = DbCallsOk THEN "ok"
    ELSE IF log = DbCallsConnectFail THEN "connect_fail"
    ELSE "execute_fail"

\* lines 120-147 and 52-62: the rest of STEP 1 (prompt, LLM call, parse) and
\* the check of its result
RiskExtract ==
    /\ pc = "risk_extract"
    /\ \E po \in PromptOutcomes, llmOk \in BOOLEAN, answer \in RiskAnswers :
        LET catDb == CategoriesOutcome(calls)
            x == extract_search_conditions_with_llm(request.arg.s, debug, catDb, po, llmOk, answer)
            timed == Put(x.debug, "step1_extract_conditions.execution_time_ms", Elapsed)
        IN /\ calls' = calls \o SubSeq(x.calls, Len(calls) + 1, Len(x.calls))
           /\ debug' = timed
           /\ filter' = x.conditions
           /\ IF IsNone(x.conditions) \/ ~JsonTruthy(Get(x.conditions))
              THEN /\ toolResp' = Some(MCPResponse(None,
                                          Some(TextResult(<<ConditionExtractFailed>>)),
                                          Some(<<ConditionExtractError>>), Some(timed)))
                   /\ pc' = "tool_return"
              ELSE /\ pc' = "risk_query"
                   /\ UNCHANGED toolResp
    /\ UNCHANGED <<server, request, response, raised, conns, query, query_params, rows,
                   invoked>>

\* lines 64-67: STEP 2
RiskQuery ==
    /\ pc = "risk_query"
    /\ \E db \in DbOutcomes :
        LET r == execute_sql_query(Get(filter), debug, db)
        IN /\ calls' = calls \o r.calls
           /\ conns' = conns + r.leaked
           /\ query' = r.query
           /\ query_params' = r.params
           /\ rows' = r.results
           /\ debug' = Put(r.debug, "step2_sql_execution.execution_time_ms", Elapsed)
    /\ pc' = "risk_format"
    /\ UNCHANGED <<server, request, response, toolResp, raised, filter, invoked>>

\* lines 69-83: STEP 3 and the response
RiskFormat ==
    /\ pc = "risk_format"
    /\ \E po \in PromptOutcomes, llmOk \in BOOLEAN, answer \in TextAnswers :
        LET f == format_results_with_llm(rows, request.arg.s, Get(filter), debug, po, llmOk, answer)
            timed == Put(Put(f.debug, "step3_format_results.execution_time_ms", Elapsed),
                         "total_execution_time_ms", Elapsed)
        IN /\ calls' = calls \o f.calls
           /\ debug' = timed
           /\ toolResp' = Some(MCPResponse(None, Some(TextResult(f.text)), None, Some(timed)))
    /\ pc' = "tool_return"
    /\ UNCHANGED <<server, request, response, raised, conns, filter, query,
                   query_params, rows, invoked>>

(***************************************************************************)
(* tools/fuzzy_name_search.py: the multi-stage fuzzy name search.          *)
(***************************************************************************)
\* "商品名曖昧検索でエラーが発生しました: "
FuzzyErrorPrefix == "error in fuzzy product name search: "
FuzzyInputRequired == "text_input parameter is required"
FuzzyNoCriteria == "Failed to extract search criteria from user input"
FuzzyNoProducts == "No products found in ProductMaster"
NoneHasNoStrip == "'NoneType' object has no attribute 'strip'"

FuzzyInitialDebug(params) ==
    [k \in {"function_name", "input_params",
            "step1_extract_criteria.llm_request", "step1_extract_criteria.llm_response",
            "step1_extract_criteria.execution_time_ms",
            "step1_extract_criteria.extracted_criteria",
            "step2_api_call.api_url", "step2_api_call.products_count",
            "step2_api_call.products_sample",
            "step3_filter_products.llm_request", "step3_filter_products.llm_response",
            "step3_filter_products.execution_time_ms",
            "step3_filter_products.filtered_products",
            "step4_format_results.llm_request", "step4_format_results.llm_response",
            "step4_format_results.execution_time_ms", "step4_format_results.final_result",
            "total_execution_time_ms", "error"} |->
        IF k = "function_name" THEN Some("search_products_by_name_fuzzy")
        ELSE IF k = "input_params" THEN Some(params)
        ELSE IF k = "step2_api_call.products_count" THEN 0
        ELSE IF k \in {"step1_extract_criteria.execution_time_ms",
                       "step3_filter_products.execution_time_ms",
                       "step4_format_results.execution_time_ms",
                       "total_execution_time_ms"} THEN ZeroTime
        ELSE None]

\* the catch-all of search_products_by_name_fuzzy (lines 167-183)
FuzzyCatchAll(tool_debug, e) ==
    LET d == Put(Put(tool_debug, "error", Some(e)), "total_execution_time_ms", Elapsed)
        error_message == <<FuzzyErrorPrefix, e>>
    IN MCPResponse(None, Some(ContentResult(error_message, TRUE)), Some(error_message), Some(d))

\* What GET /api/products gives: a list of products, a {"products": [...]}
\* object, an empty list, no answer or an error status, a body that is
\* the JSON null, a body that is not JSON (response.json() raises a
\* ValueError, which newer versions of requests derive from
\* RequestException), an object without "products", a list of strings.
ApiOutcomes == {"list", "dict", "empty", "fail", "null_body", "not_json",
                "not_json_request_exception", "dict_without_products",
                "list_of_non_mappings"}
ApiProducts == <<[id |-> 1, product_name |-> "bond A"], [id |-> 2, product_name |-> "stock B"]>>
\* a JSON string is [str |-> s]; a JSON object is the record of its keys
ApiStrings == <<[str |-> "bond A"], [str |-> "stock B"]>>
IsMapping(item) == ~("str" \in DOMAIN item)
\* lines 23-25: "ProductMaster API error: {e}"
ApiError == "ProductMaster API error: connection refused"
ApiNotJsonRequestError == "ProductMaster API error: Expecting value"
\* lines 26-28: "API client error: {e}", here the len(products) of line 20
\* and the response.json() of line 19
ApiNullBodyError == "API client error: object of type 'NoneType' has no len()"
ApiNotJsonError == "API client error: Expecting value"
\* products[:3] on a dict (fuzzy_name_search.py line 90)
DictSliceError == "unhashable type: 'slice'"
\* api_client.py lines 42-44: "Product formatting error: {e}"
ProductFormattingError == "Product formatting error: 'str' object has no attribute 'get'"

\* ProductMasterAPIClient.get_all_products (lines 13-28): the decoded body,
\* or the exception raised.  The body is a list (t = "list") or an object
\* (t = "dict", keys its keys, items the list under "products").
ProductMasterAPIClient_get_all_products(api) ==
    IF api = "fail" THEN [exc |-> Some(ApiError), t |-> "none", keys |-> {}, items |-> <<>>]
    ELSE IF api = "not_json_request_exception"
    THEN [exc |-> Some(ApiNotJsonRequestError), t |-> "none", keys |-> {}, items |-> <<>>]
    ELSE IF api = "not_json"
    THEN [exc |-> Some(ApiNotJsonError), t |-> "none", keys |-> {}, items |-> <<>>]
    ELSE IF api = "null_body"
    THEN [exc |-> Some(ApiNullBodyError), t |-> "none", keys |-> {}, items |-> <<>>]
    ELSE IF api = "dict"
    THEN [exc |-> None, t |-> "dict", keys |-> {"products"}, items |-> ApiProducts]
    ELSE IF api = "dict_without_products"
    THEN [exc |-> None, t |-> "dict", keys |-> {"error"}, items |-> <<>>]
    ELSE IF api = "list_of_non_mappings"
    THEN [exc |-> None, t |-> "list", keys |-> {}, items |-> ApiStrings]
    ELSE IF api = "list"
    THEN [exc |-> None, t |-> "list", keys |-> {}, items |-> ApiProducts]
    ELSE [exc |-> None, t |-> "list", keys |-> {}, items |-> <<>>]

\* ProductMasterAPIClient.format_products_for_llm: "id:name" per product,
\* or the exception of product.get on an item that is no mapping
format_products_for_llm(products) ==
    IF \E i \in 1..Len(products) : ~IsMapping(products[i])
    THEN [exc |-> Some(ProductFormattingError), list |-> <<>>]
    ELSE [exc |-> None,
          list |-> [i \in 1..Len(products) |->
                       <<products[i].id, ":", products[i].product_name>>]]

\* What the model answers to the filtering prompt: a JSON array (bare or in
\* prose), brackets around something that is no JSON, a bracketed JSON value
\* cut to a non-list, or no brackets at all.
FilterAnswers == {
    [k |-> "array", items |-> <<"1:bond A">>],
    [k |-> "array", items |-> <<>>],
    \* brackets around text that names a product and is not valid JSON
    [k |-> "bad_json", items |-> <<"1:bond A">>],
    [k |-> "no_bracket", items |-> <<>>] }

\* a parse that takes what stands between the brackets as it is written
ParseFilteredAsWritten(resp) == resp.items

\* lines 110-134: find('[') / rfind(']') / json.loads, degrading to []
ParseFiltered(resp) ==
    IF resp.k \in {"no_bracket", "llm_error"} THEN <<>>   \* no '[' ... ']' (lines 124-127)
    ELSE IF resp.k = "bad_json" THEN <<>>                 \* JSONDecodeError (lines 129-131)
    ELSE resp.items

\* lines 52-58: the text_input check
FuzzyStart ==
    /\ pc = "fuzzy_start"
    /\ LET d0 == FuzzyInitialDebug(request.arg)
           v == GetTextInput(request.arg)
       IN IF v.isNone
          THEN /\ toolResp' = Some(FuzzyCatchAll(d0, NoneHasNoStrip))
               /\ debug' = Get(toolResp'[1].debug_response)
               /\ pc' = "tool_return"
          ELSE IF Len(Strip(v.s)) = 0
          THEN /\ toolResp' = Some(FuzzyCatchAll(d0, FuzzyInputRequired))
               /\ debug' = Get(toolResp'[1].debug_response)
               /\ pc' = "tool_return"
          ELSE /\ debug' = d0
               /\ pc' = "fuzzy_criteria"
               /\ UNCHANGED toolResp
    /\ UNCHANGED <<server, request, response, raised, calls, conns, filter,
                   query, query_params, rows, invoked>>

\* lines 60-75: STEP 1, the keyword extraction
FuzzyCriteria ==
    /\ pc = "fuzzy_criteria"
    /\ \E po \in PromptOutcomes, llmOk \in BOOLEAN, answer \in TextAnswers :
        LET system_prompt == get_system_prompt("fuzzy_search_extract_criteria", po)
            full_prompt == [system |-> system_prompt, user |-> Strip(request.arg.s)]
            resp == call_llm_simple(llmOk, answer)
            d1 == Put(Put(Put(Put(debug,
                    "step1_extract_criteria.llm_request", Some(full_prompt)),
                    "step1_extract_criteria.llm_response", Some(resp)),
                    "step1_extract_criteria.execution_time_ms", Elapsed),
                    "step1_extract_criteria.extracted_criteria", Some(resp))
            search_criteria == Strip(TextOf(resp))
        IN /\ calls' = calls \o <<PromptCall(system_prompt),
                                  LlmCall(system_prompt.kind, llmOk)>>
           /\ IF Len(search_criteria) = 0
              THEN /\ toolResp' = Some(FuzzyCatchAll(d1, FuzzyNoCriteria))
                   /\ debug' = Get(toolResp'[1].debug_response)
                   /\ pc' = "tool_return"
                   /\ UNCHANGED filter
              ELSE /\ debug' = d1
                   /\ filter' = Some(search_criteria)
                   /\ pc' = "fuzzy_fetch"
                   /\ UNCHANGED toolResp
    /\ UNCHANGED <<server, request, response, raised, conns, query, query_params,
                   rows, invoked>>

\* lines 77-97: STEP 2, all products from the ProductMaster API
FuzzyFetch ==
    /\ pc = "fuzzy_fetch"
    /\ \E api \in ApiOutcomes :
        LET d1 == Put(debug, "step2_api_call.api_url", Some("http://localhost:8001/api/products"))
            products_data == ProductMasterAPIClient_get_all_products(api)
            \* lines 84-87: the list under "products", or the body itself
            unwrapped == products_data.t = "dict" /\ "products" \in products_data.keys
            isList == products_data.t = "list" \/ unwrapped
            products == products_data.items
            \* len(products): the items of a list, the keys of a dict
            count == IF isList THEN Len(products) ELSE Cardinality(products_data.keys)
            counted == Put(d1, "step2_api_call.products_count", count)
            d2 == Put(counted, "step2_api_call.products_sample",
                      Some(SubSeq(products, 1, Min(3, Len(products)))))
            formatted_products == format_products_for_llm(products)
            failure ==
                IF IsSome(products_data.exc) THEN [e |-> Get(products_data.exc), d |-> d1]
                \* products[:3] on a non-empty dict
                ELSE IF ~isList /\ count > 0 THEN [e |-> DictSliceError, d |-> counted]
                ELSE IF count = 0 THEN [e |-> FuzzyNoProducts, d |-> d2]
                ELSE IF IsSome(formatted_products.exc)
                THEN [e |-> Get(formatted_products.exc), d |-> d2]
                ELSE [e |-> "", d |-> d2]
        IN /\ calls' = Append(calls, Call("api", "products", IsNone(products_data.exc)))
           /\ IF failure.e # ""
              THEN /\ toolResp' = Some(FuzzyCatchAll(failure.d, failure.e))
                   /\ debug' = Get(toolResp'[1].debug_response)
                   /\ pc' = "tool_return"
                   /\ UNCHANGED rows
              ELSE /\ debug' = d2
                   /\ rows' = formatted_products.list
                   /\ pc' = "fuzzy_filter"
                   /\ UNCHANGED toolResp
    /\ UNCHANGED <<server, request, response, raised, conns, filter, query,
                   query_params, invoked>>

\* lines 99-137: STEP 3, the filtering call and the parse of its answer
FuzzyFilter ==
    /\ pc = "fuzzy_filter"
    /\ \E po \in PromptOutcomes, llmOk \in BOOLEAN, answer \in FilterAnswers :
        LET system_prompt == get_system_prompt("fuzzy_search_filter_products", po)
            full_prompt == [system |-> system_prompt, criteria |-> Get(filter), products |-> rows]
            resp == IF llmOk THEN answer ELSE [k |-> "llm_error", items |-> <<>>]
            filtered_products == ParseFiltered(resp)
        IN /\ calls' = calls \o <<PromptCall(system_prompt),
                                  LlmCall(system_prompt.kind, llmOk)>>
           /\ debug' = Put(Put(Put(Put(debug,
                    "step3_filter_products.llm_request", Some(full_prompt)),
                    "step3_filter_products.llm_response", Some(resp)),
                    "step3_filter_products.execution_time_ms", Elapsed),
                    "step3_filter_products.filtered_products", Some(filtered_products))
           /\ rows' = filtered_products
    /\ pc' = "fuzzy_format"
    /\ UNCHANGED <<server, request, response, toolResp, raised, conns, filter, query,
                   query_params, invoked>>

\* lines 139-165: STEP 4, the formatting call and the response
FuzzyFormat ==
    /\ pc = "fuzzy_format"
    /\ \E po \in PromptOutcomes, llmOk \in BOOLEAN, answer \in TextAnswers :
        LET system_prompt == get_system_prompt("fuzzy_search_format_results", po)
            full_prompt == [system |-> system_prompt, products |-> rows]
            resp == call_llm_simple(llmOk, answer)
            d1 == Put(Put(Put(Put(Put(debug,
                    "step4_format_results.llm_request", Some(full_prompt)),
                    "step4_format_results.llm_response", Some(resp)),
                    "step4_format_results.execution_time_ms", Elapsed),
                    "step4_format_results.final_result", Some(resp)),
                    "total_execution_time_ms", Elapsed)
        IN /\ calls' = calls \o <<PromptCall(system_prompt),
                                  LlmCall(system_prompt.kind, llmOk)>>
           /\ debug' = d1
           /\ toolResp' = Some(MCPResponse(None,
                                   Some(ContentResult(Strip(TextOf(resp)), FALSE)),
                                   None, Some(d1)))
    /\ pc' = "tool_return"
    /\ UNCHANGED <<server, request, response, raised, conns, filter, query,
                   query_params, rows, invoked>>

(***************************************************************************)
(* server/product_mcp_server.py: the one-tool server, get_product_details. *)
(***************************************************************************)
\* "text_inputが必要です"
DetailsInputRequired == "text_inputga hitsuyou desu"
\* "商品情報: 該当する商品はありませんでした。"
NoProductsSentence == "product info: no matching product"
\* "商品情報のテキスト化に失敗: "
TextifyFailedPrefix == "failed to render product info as text: "
\* "SQLエラー: "
SqlErrorPrefix == "SQL error: "
\* "配列パースエラー: "
ArrayParseErrorPrefix == "array parse error: "
\* "LLM応答のJSONパース失敗: "
StandardizeFailedPrefix == "failed to JSON-parse the LLM answer: "
NotApplicable(why) == <<"N/A (", why, ")">>

\* product_mcp_server.mcp_endpoint (lines 141-168), the branches that answer
\* without running the tool; None when get_product_details is called
ProductDirectResponse(req) ==
    IF req.method = "tools/call"
    THEN IF req.name = "get_product_details"
         THEN None
         ELSE Some(MCPResponse(Some(req.id), None, Some(<<"Unknown tool: ", req.name>>), None))
    ELSE IF req.method = "tools/list"
    THEN Some(MCPResponse(Some(req.id), Some(ToolsListResult("product")), None, None))
    ELSE Some(MCPResponse(Some(req.id), None, Some(<<"Unknown method: ", req.method>>), None))

\* lines 153-156: result.id = request.id
ProductToolResponse(req, result) == [result EXCEPT !.id = Some(req.id)]

\* lines 166-168
ProductExceptionResponse(req, e) == MCPResponse(Some(req.id), None, Some(<<e.msg>>), None)

\* A field of the standardized object: JSON null or a string.
SNull == [null |-> TRUE, code |-> "", name |-> <<>>]
SCode(c) == [null |-> FALSE, code |-> c, name |-> <<>>]
SName(n) == [null |-> FALSE, code |-> "", name |-> n]

\* What the model answers to the standardization prompt.
StandardizeAnswers == {
    [k |-> "object", v |-> [product_code |-> SCode("JP001"), product_name |-> SNull]],
    [k |-> "object", v |-> [product_code |-> SNull, product_name |-> SName(<<"J">>)]],
    [k |-> "object", v |-> [product_code |-> SCode("JP001"), product_name |-> SName(<<"J">>)]],
    [k |-> "object", v |-> [product_code |-> SCode("XX999"), product_name |-> SName(<<>>)]],
    [k |-> "object", v |-> [product_code |-> SNull, product_name |-> SNull]],
    [k |-> "object", v |-> [product_code |-> SCode(""), product_name |-> SName(<<>>)]],
    [k |-> "object", v |-> EmptyDict],
    [k |-> "bad_object", v |-> EmptyDict],
    [k |-> "no_object", v |-> EmptyDict] }

\* standardize_product_arguments: (normalized, raw_response, standardize_parameter);
\* standardize_parameter is the standardized object, or the error message
standardize_product_arguments(text_input, llmOk, answer) ==
    LET fallback == [product_code |-> SNull, product_name |-> SName(text_input)]
    IN IF ~llmOk
       THEN [normalized |-> fallback, raw_response |-> [k |-> "LLM call failed"],
             parameter |-> Some(<<StandardizeFailedPrefix, "bedrock failure">>), degraded |-> TRUE]
       ELSE IF answer.k = "object"
       \* line 368: the standardized object is also the fourth value
       THEN [normalized |-> answer.v, raw_response |-> [k |-> answer.k],
             parameter |-> Some(answer.v), degraded |-> FALSE]
       ELSE IF answer.k = "no_object"
       THEN [normalized |-> fallback, raw_response |-> [k |-> answer.k],
             parameter |-> Some(<<StandardizeFailedPrefix, "No JSON found in response">>),
             degraded |-> TRUE]
       ELSE [normalized |-> fallback, raw_response |-> [k |-> answer.k],
             parameter |-> Some(<<StandardizeFailedPrefix, "Expecting property name">>),
             degraded |-> TRUE]

\* normalized_params.get(key): None when absent or null
ParamGet(normalized, key) ==
    IF key \in DOMAIN normalized /\ ~normalized[key].null THEN Some(normalized[key]) ELSE None

\* the code/name query with the name tried before the code
BuildDetailsQueryNameFirst(normalized) ==
    LET product_code == ParamGet(normalized, "product_code")
        product_name == ParamGet(normalized, "product_name")
        base == <<"SELECT * FROM products WHERE 1=1">>
    IN IF IsSome(product_name) /\ Len(Get(product_name).name) > 0
       THEN [query |-> base \o <<" AND product_name ILIKE ", "%s">>,
             params |-> <<[eq |-> "", like |-> <<"%">> \o Get(product_name).name \o <<"%">>]>>,
             normalized |-> normalized]
       ELSE IF IsSome(product_code) /\ Get(product_code).code # ""
       THEN [query |-> base \o <<" AND product_code = ", "%s">>,
             params |-> <<[eq |-> Get(product_code).code, like |-> <<>>]>>,
             normalized |-> normalized]
       ELSE [query |-> base, params |-> <<>>, normalized |-> normalized]

\* lines 192-206: the code/name query of get_product_details;
\* normalized_params is read with .get and is handed back as the lines leave it
BuildDetailsQuery(normalized) ==
    LET product_code == ParamGet(normalized, "product_code")
        product_name == ParamGet(normalized, "product_name")
        base == <<"SELECT * FROM products WHERE 1=1">>
    IN IF IsSome(product_code) /\ Get(product_code).code # ""
       THEN [query |-> base \o <<" AND product_code = ", "%s">>,
             params |-> <<[eq |-> Get(product_code).code, like |-> <<>>]>>,
             normalized |-> normalized]
       ELSE IF IsSome(product_name) /\ Len(Get(product_name).name) > 0
       THEN [query |-> base \o <<" AND product_name ILIKE ", "%s">>,
             params |-> <<[eq |-> "", like |-> <<"%">> \o Get(product_name).name \o <<"%">>]>>,
             normalized |-> normalized]
       ELSE [query |-> base, params |-> <<>>, normalized |-> normalized]

Lower(c) == IF c = "J" THEN "j" ELSE c
LowerStr(s) == [i \in 1..Len(s) |-> Lower(s[i])]
\* s ILIKE '%' || needle || '%'
ILikeContains(s, needle) ==
    \E i \in 1..(Len(s) + 1) :
        /\ i + Len(needle) - 1 <= Len(s)
        /\ LowerStr(SubSeq(s, i, i + Len(needle) - 1)) = LowerStr(needle)

\* the database's answer to the code/name query over products
RunDetailsQuery(q, params) ==
    LET matched ==
          IF \E i \in 1..Len(q) : q[i] = " AND product_code = "
          THEN SelectSeq(Catalog, LAMBDA r : r.product_code = params[1].eq)
          ELSE IF \E i \in 1..Len(q) : q[i] = " AND product_name ILIKE "
          THEN SelectSeq(Catalog, LAMBDA r :
                   ILikeContains(r.product_name,
                                 SubSeq(params[1].like, 2, Len(params[1].like) - 1)))
          ELSE Catalog
    IN Capped(q, matched)

\* format_products_to_text: the text and the calls made
format_products_to_text(products_array, llmOk, answer) ==
    IF Len(products_array) = 0
    THEN [text |-> <<NoProductsSentence>>, calls |-> <<>>]
    ELSE IF llmOk
    THEN [text |-> TextOf(answer), calls |-> <<LlmCall("inline", TRUE)>>]
    ELSE [text |-> <<TextifyFailedPrefix, "bedrock failure">>, calls |-> <<LlmCall("inline", FALSE)>>]

\* the tool_debug dicts of get_product_details
DetailsDebug(q, results, fmtPrompt, fmtResponse, std, count, error_type) ==
    LET d == [executed_query |-> q, executed_query_results |-> results,
              format_prompt |-> fmtPrompt, format_response |-> fmtResponse,
              standardize_prompt |-> std.prompt, standardize_response |-> std.response,
              standardize_parameter |-> std.parameter,
              execution_time_ms |-> Elapsed, results_count |-> count]
    IN IF error_type = "absent" THEN d ELSE Put(d, "error_type", error_type)

\* lines 170-188: the text_input check
DetailsStart ==
    /\ pc = "details_start"
    /\ IF ~Truthy(GetTextInput(request.arg))
       THEN LET na == NotApplicable("no text_input")
                tool_debug == DetailsDebug(na, <<DetailsInputRequired>>, na, na,
                                  [prompt |-> na, response |-> na, parameter |-> na],
                                  0, "absent")
            IN /\ toolResp' = Some(MCPResponse(None, Some(TextResult(<<DetailsInputRequired>>)),
                                               None, Some(tool_debug)))
               /\ debug' = tool_debug
               /\ pc' = "tool_return"
       ELSE /\ pc' = "details_standardize"
            /\ UNCHANGED <<toolResp, debug>>
    /\ UNCHANGED <<server, request, response, raised, calls, conns, filter,
                   query, query_params, rows, invoked>>

\* lines 190-193: the LLM normalization
DetailsStandardize ==
    /\ pc = "details_standardize"
    /\ \E llmOk \in BOOLEAN, answer \in StandardizeAnswers :
        LET s == standardize_product_arguments(request.arg.s, llmOk, answer)
        IN /\ filter' = Some(s.normalized)
           /\ debug' = [prompt |-> request.arg.s, response |-> s.raw_response,
                        parameter |-> s.parameter, degraded |-> s.degraded]
           /\ calls' = Append(calls, LlmCall("inline", llmOk))
    /\ pc' = "details_query"
    /\ UNCHANGED <<server, request, response, toolResp, raised, conns, query,
                   query_params, rows, invoked>>

\* lines 195-266: connect (outside any try), build, execute, project the rows
DetailsQuery ==
    /\ pc = "details_query"
    /\ \E db \in DbOutcomes \cup {"ok_row_without_product_type"} :
        LET b == BuildDetailsQuery(Get(filter))
            na(why) == NotApplicable(why)
        IN IF db = "connect_fail"
           THEN /\ calls' = calls \o DbCallsConnectFail
                /\ raised' = Some([type |-> "OperationalError", msg |-> ConnectError])
                /\ pc' = "tool_return"
                /\ UNCHANGED <<toolResp, debug, conns, query, query_params, rows>>
           ELSE IF db = "execute_fail"
           THEN LET error_message == <<SqlErrorPrefix, StatementError>>
                    tool_debug == DetailsDebug(b.query, error_message, na("SQL error"),
                                      na("SQL error"), debug, 0, "SQL_ERROR")
                IN /\ calls' = calls \o DbCallsExecuteFailClosed
                   /\ query' = b.query
                   /\ query_params' = b.params
                   /\ toolResp' = Some(MCPResponse(None, Some(TextResult(error_message)),
                                                   None, Some(tool_debug)))
                   /\ debug' = tool_debug
                   /\ pc' = "tool_return"
                   /\ UNCHANGED <<raised, conns, rows>>
           ELSE IF db = "ok_row_without_product_type" /\ Len(RunDetailsQuery(b.query, b.params)) > 0
           THEN LET products == RunDetailsQuery(b.query, b.params)
                    error_message == <<ArrayParseErrorPrefix, "'product_type'">>
                    \* line 255: f"SQL成功({len(products)}件) → 配列パースエラー: ..."
                    tool_debug == DetailsDebug(b.query,
                                      <<"SQL ok (">> \o DecimalText(Len(products))
                                          \o <<" rows) -> ">> \o error_message,
                                      na("array parse error"), na("array parse error"),
                                      debug, 0, "ARRAY_PARSE_ERROR")
                IN /\ calls' = calls \o DbCallsOk
                   /\ query' = b.query
                   /\ query_params' = b.params
                   /\ toolResp' = Some(MCPResponse(None, Some(TextResult(error_message)),
                                                   None, Some(tool_debug)))
                   /\ debug' = tool_debug
                   /\ pc' = "tool_return"
                   /\ UNCHANGED <<raised, conns, rows>>
           ELSE /\ calls' = calls \o DbCallsOk
                /\ query' = b.query
                /\ query_params' = b.params
                /\ rows' = RunDetailsQuery(b.query, b.params)
                /\ pc' = "details_format"
                /\ UNCHANGED <<toolResp, raised, debug, conns>>
    /\ UNCHANGED <<server, request, response, filter, invoked>>

\* lines 268-305: format_products_to_text and the response
DetailsFormat ==
    /\ pc = "details_format"
    /\ \E llmOk \in BOOLEAN, answer \in TextAnswers :
        LET f == format_products_to_text(rows, llmOk, answer)
            tool_debug == DetailsDebug(query, rows, <<"render the product array as text">>,
                                       f.text, debug, Len(rows), "NONE")
        IN /\ calls' = calls \o f.calls
           /\ debug' = tool_debug
           /\ toolResp' = Some(MCPResponse(None, Some(TextResult(f.text)), None,
                                           Some(tool_debug)))
    /\ pc' = "tool_return"
    /\ UNCHANGED <<server, request, response, raised, conns, filter, query,
                   query_params, rows, invoked>>

\* product_mcp_server.mcp_endpoint up to the await of get_product_details
ProductEndpoint ==
    /\ pc = "endpoint"
    /\ server = "product"
    /\ LET direct == ProductDirectResponse(request)
       IN IF IsSome(direct)
          THEN /\ response' = direct
               /\ pc' = "done"
               /\ UNCHANGED invoked
          ELSE /\ invoked' = Append(invoked, "get_product_details")
               /\ pc' = ToolEntry("get_product_details")
               /\ UNCHANGED response
    /\ UNCHANGED <<server, request, toolResp, raised, debug, calls, conns, filter,
                   query, query_params, rows>>

\* product_mcp_server.mcp_endpoint after get_product_details returned or raised
ProductEndpointReturn ==
    /\ pc = "tool_return"
    /\ server = "product"
    /\ response' = IF IsSome(raised)
                   THEN Some(ProductExceptionResponse(request, Get(raised)))
                   ELSE Some(ProductToolResponse(request, Get(toolResp)))
    /\ pc' = "done"
    /\ UNCHANGED <<server, request, toolResp, raised, debug, calls, conns, filter,
                   query, query_params, rows, invoked>>

(***************************************************************************)
(* The query builders on their own: every filter within the bounds is      *)
(* built, then built again.  server names the builder, pc the step.        *)
(***************************************************************************)
Lists(alphabet) == UNION {[1..n -> alphabet] : n \in 0..MaxListLen}
FieldOptions(alphabet) == {None, Some(JNull)} \cup {Some(JList(l)) : l \in Lists(alphabet)}

\* every conditions object that passes "if not conditions": each field
\* absent, null or a list, and one field at least
AllConditions ==
    {JDict((IF IsSome(p[1]) THEN [risk_levels |-> Get(p[1])] ELSE EmptyDict)
           @@ (IF IsSome(p[2]) THEN [category_types |-> Get(p[2])] ELSE EmptyDict)) :
        p \in {x \in FieldOptions({1, 2}) \X FieldOptions({"bond", "stock"}) :
                  IsSome(x[1]) \/ IsSome(x[2])}}

\* every normalized_params object: each field absent, null or a string
AllNormalized ==
    {(IF IsSome(c) THEN [product_code |-> Get(c)] ELSE EmptyDict)
     @@ (IF IsSome(n) THEN [product_name |-> Get(n)] ELSE EmptyDict) :
        c \in {None, Some(SNull), Some(SCode("")), Some(SCode("JP001"))},
        n \in {None, Some(SNull)} \cup {Some(SName(t)) : t \in Strings(MaxTextLen)}}

\* every id list the extraction hands on: not empty, no id twice
AllIdLists == {l \in Lists({1, 2, 3}) : Len(l) > 0 /\ Cardinality(Range(l)) = Len(l)}

\* the builder a tool uses, applied to a filter: the SQL text, the
\* parameters, and the filter object as the builder leaves it
BuildQuery(builder, f) ==
    IF builder = "risk"
    THEN LET b == build_risk_filter_query(f)
         IN [query |-> b.query, params |-> b.params, filter |-> b.conditions]
    ELSE IF builder = "details"
    THEN LET b == BuildDetailsQuery(f)
         IN [query |-> b.query, params |-> b.params, filter |-> b.normalized]
    ELSE LET b == BuildIdQuery(f)
         IN [query |-> b.query, params |-> b.params, filter |-> b.product_ids]

InitBuild ==
    /\ pc = "build"
    /\ \E b \in {"risk", "details", "ids"} :
          /\ server = b
          /\ filter \in {Some(f) : f \in IF b = "risk" THEN AllConditions
                                         ELSE IF b = "details" THEN AllNormalized
                                         ELSE AllIdLists}
    /\ request = NoRequest
    /\ response = None
    /\ toolResp = None
    /\ raised = None
    /\ debug = EmptyDict
    /\ calls = <<>>
    /\ conns = 0
    /\ query = <<>>
    /\ query_params = <<>>
    /\ rows = <<>>
    /\ invoked = <<>>

\* the builder is called with the filter object: the caller holds what the
\* builder returned, and the filter object as the call left it
Build ==
    /\ pc = "build"
    /\ LET b == BuildQuery(server, Get(filter))
       IN /\ query' = b.query
          /\ query_params' = b.params
          /\ filter' = Some(b.filter)
    /\ pc' = "built"
    /\ UNCHANGED <<server, request, response, toolResp, raised, debug, calls, conns,
                   rows, invoked>>

\* the builder is called once more with the same object, as the first call
\* left it
Rebuild ==
    /\ pc = "built"
    /\ LET b == BuildQuery(server, Get(filter))
       IN /\ query' = b.query
          /\ query_params' = b.params
          /\ filter' = Some(b.filter)
    /\ pc' = "rebuilt"
    /\ UNCHANGED <<server, request, response, toolResp, raised, debug, calls, conns,
                   rows, invoked>>

NextBuild == Build \/ Rebuild

SpecBuild == InitBuild /\ [][NextBuild]_vars

Next ==
    \/ Receive
    \/ MainEndpoint
    \/ MainEndpointReturn
    \/ SendResponse
    \/ ByIdStart
    \/ ByIdExtract
    \/ ByIdQuery
    \/ ByIdFormat
    \/ RiskStart
    \/ RiskCategories
    \/ RiskExtract
    \/ RiskQuery
    \/ RiskFormat
    \/ FuzzyStart
    \/ FuzzyCriteria
    \/ FuzzyFetch
    \/ FuzzyFilter
    \/ FuzzyFormat
    \/ ProductEndpoint
    \/ ProductEndpointReturn
    \/ DetailsStart
    \/ DetailsStandardize
    \/ DetailsQuery
    \/ DetailsFormat

Spec == Init /\ [][Next]_vars

(***************************************************************************)
(* Concurrent tool calls on the event loop of main.py.  Here pc, request   *)
(* and response are functions of the request id, debug is the heap of      *)
(* trace dicts (each entry tagged with the call that wrote it), conns the  *)
(* set of connection objects (each the n-th connection its call opened),   *)
(* server the module-level objects.                                        *)
(***************************************************************************)
\* the tools whose calls run side by side
ConcurrentTools == {"get_product_details_byid", "filter_products_by_risk_and_type"}

\* module-level objects the tool functions use: utils.llm_util.llm_util and
\* the tools_manager of main.py
ModuleObjects ==
    [llm_util |-> [model_id |-> "BEDROCK_CONFIG.model_id", bedrock_client |-> "boto3 client"],
     tools_manager |-> ToolsConfig]

\* a trace dict bound to a module-level name: every call gets the first object
ModuleLevelDict(heap) == 1

\* "debug_info = {}" / "tool_debug = {...}" inside the function body: a new
\* object on every call
NewDict(heap) == Len(heap) + 1

\* the keys a call writes into its trace at each step (the nested dicts of
\* tool_debug are flattened: "step1_extract_conditions.llm_request")
TraceKeys(tool, step) ==
    IF tool = "get_product_details_byid"
    THEN IF step = "start" THEN {}                                   \* debug_info = {}
         ELSE IF step = "extract"                                     \* lines 99-105, 121-122
         THEN {"extract_ids_prompt", "extract_ids_llm_response",
               "extract_ids_execution_time_ms", "extract_ids_parsed_successfully",
               "extract_ids_final_result"}
         ELSE IF step = "extract_parse_error"                         \* lines 99-105, 130-132
         THEN {"extract_ids_prompt", "extract_ids_llm_response",
               "extract_ids_execution_time_ms", "extract_ids_parsed_successfully",
               "extract_ids_parse_error", "extract_ids_final_result"}
         ELSE IF step = "extract_error"                               \* lines 99-105, 141-142
         THEN {"extract_ids_prompt", "extract_ids_llm_response",
               "extract_ids_execution_time_ms", "extract_ids_error",
               "extract_ids_final_result"}
         ELSE IF step = "execute" THEN {"search_query", "search_params"}
         ELSE IF step = "close" THEN {}
         ELSE IF step = "format"                                      \* lines 179-191
         THEN {"format_prompt", "format_llm_request", "format_llm_response",
               "format_execution_time_ms"}
         ELSE IF step = "error" THEN {"error", "execution_time_ms"}   \* lines 81-82
         ELSE {"execution_time_ms"}                                   \* lines 44, 71
    ELSE IF step = "start"                                            \* lines 17-40
         THEN {"function_name", "input_params",
               "step1_extract_conditions.llm_request", "step1_extract_conditions.llm_response",
               "step1_extract_conditions.parsed_conditions",
               "step1_extract_conditions.execution_time_ms",
               "step2_sql_execution.sql_query", "step2_sql_execution.sql_params",
               "step2_sql_execution.executable_sql", "step2_sql_execution.results_count",
               "step2_sql_execution.execution_time_ms",
               "step3_format_results.llm_request", "step3_format_results.llm_response",
               "step3_format_results.execution_time_ms",
               "total_execution_time_ms", "error"}
         ELSE IF step \in {"extract", "extract_parse_error"}          \* lines 129-143, 54
         THEN {"step1_extract_conditions.llm_request", "step1_extract_conditions.llm_response",
               "step1_extract_conditions.parsed_conditions",
               "step1_extract_conditions.execution_time_ms"}
         ELSE IF step = "execute"                                     \* database.py 25-34
         THEN {"step2_sql_execution.sql_query", "step2_sql_execution.sql_params",
               "step2_sql_execution.executable_sql"}
         ELSE IF step = "close"                                       \* database.py 48-49, line 67
         THEN {"step2_sql_execution.results_count", "step2_sql_execution.execution_time_ms"}
         ELSE IF step = "error"                                       \* line 67 after the swallowed exception
         THEN {"step2_sql_execution.execution_time_ms"}
         ELSE IF step = "format"                                      \* lines 205-210, 72
         THEN {"step3_format_results.llm_request", "step3_format_results.llm_response",
               "step3_format_results.execution_time_ms"}
         ELSE IF step = "format_without_prompt"                       \* lines 195-197, 72
         THEN {"step3_format_results.execution_time_ms"}
         ELSE {"total_execution_time_ms"}                             \* lines 74-75

\* d[key] = value by call r, on the object the call's local name refers to
WriteTrace(heap, ref, r, keys) ==
    [heap EXCEPT ![ref] = @ \cup {[key |-> k, by |-> r] : k \in keys}]

NoFrame == [name |-> "None", trace |-> 0, conn |-> 0]

\* psycopg2.connect(): a connection object that did not exist before, the
\* next one of call r
NewConnection(pool, r) ==
    [by |-> r, n |-> Cardinality({c \in pool : c.by = r}) + 1, open |-> TRUE, used_by |-> {}]

\* the connection object the local name conn of a frame refers to
HeldConnection(pool, frame) ==
    CHOOSE c \in pool : c.n = frame.conn /\ \E r \in ReqIds : request[r] = frame /\ c.by = r

\* how a normalizing stage ends: a usable filter, nothing to search for, an
\* answer that does not parse, or (id-list tool, lines 140-144) another
\* exception of the parse
ExtractOutcomes == {"found", "nothing", "parse_error", "error"}

InitConcurrent ==
    /\ pc = [r \in ReqIds |-> "c_idle"]
    /\ request = [r \in ReqIds |-> NoFrame]
    /\ response = [r \in ReqIds |-> None]
    /\ debug = <<>>
    /\ conns = {}
    /\ server = ModuleObjects
    /\ toolResp = None
    /\ raised = None
    /\ calls = <<>>
    /\ filter = None
    /\ query = <<>>
    /\ query_params = <<>>
    /\ rows = <<>>
    /\ invoked = <<>>

\* the tool function returns its MCPResponse and the endpoint passes its
\* debug_response on (main.py 104-106) in the same step of the event loop:
\* the response of call r holds the trace dict as it is at that moment
SendDebugResponse(r, trace) == [response EXCEPT ![r] = Some(trace)]

\* a tools/call request enters its tool function: the trace dict is created;
\* without text_input the function returns at once
CallStart ==
    \E r \in ReqIds, tool \in ConcurrentTools, hasText \in BOOLEAN :
        /\ pc[r] = "c_idle"
        /\ LET ref == NewDict(debug)
               heap == IF ref > Len(debug) THEN Append(debug, {}) ELSE debug
               written == WriteTrace(heap, ref, r, TraceKeys(tool, "start"))
           IN /\ debug' = written
              /\ request' = [request EXCEPT ![r] = [name |-> tool, trace |-> ref, conn |-> 0]]
              /\ response' = IF hasText THEN response ELSE SendDebugResponse(r, written[ref])
        /\ pc' = [pc EXCEPT ![r] =
                    IF ~hasText THEN "c_done"
                    ELSE IF tool = "filter_products_by_risk_and_type" THEN "c_categories"
                    ELSE "c_extract"]
        /\ UNCHANGED <<server, toolResp, raised, calls, conns, filter, query,
                       query_params, rows, invoked>>

\* get_active_categories of the risk-filter tool: execute_query opens a
\* connection of its own, runs the categories statement and closes it; a
\* failed statement leaves it open, a failed connect leaves no object; the
\* exception is swallowed and the call goes on
CallCategories ==
    \E r \in ReqIds, db \in DbOutcomes :
        /\ pc[r] = "c_categories"
        /\ conns' = IF db = "connect_fail" THEN conns
                    ELSE conns \cup {[by |-> r, n |-> 1, open |-> db = "execute_fail",
                                      used_by |-> {r}]}
        /\ pc' = [pc EXCEPT ![r] = "c_extract"]
        /\ UNCHANGED <<server, request, response, debug, toolResp, raised, calls, filter,
                       query, query_params, rows, invoked>>

\* the normalizing stage returns.  Id-list tool: ids go on to the query; an
\* answer that does not parse is formatted as an error without a further
\* call (lines 172-174), the time is recorded (line 43) and the function
\* returns; no id (or another exception) returns at once.  Risk-filter
\* tool: without conditions the call returns at once.
CallExtract ==
    \E r \in ReqIds, outcome \in ExtractOutcomes :
        /\ pc[r] = "c_extract"
        /\ outcome = "error" => request[r].name = "get_product_details_byid"
        /\ LET written ==
                 WriteTrace(debug, request[r].trace, r,
                     TraceKeys(request[r].name,
                               IF outcome = "parse_error" THEN "extract_parse_error"
                               ELSE IF outcome = "error" THEN "extract_error"
                               ELSE "extract")
                     \cup (IF outcome = "parse_error"
                              /\ request[r].name = "get_product_details_byid"
                           THEN TraceKeys(request[r].name, "return") ELSE {}))
           IN /\ debug' = written
              /\ response' = IF outcome = "found" THEN response
                             ELSE SendDebugResponse(r, written[request[r].trace])
        /\ pc' = [pc EXCEPT ![r] = IF outcome = "found" THEN "c_open" ELSE "c_done"]
        /\ UNCHANGED <<server, request, toolResp, raised, calls, conns, filter,
                       query, query_params, rows, invoked>>

\* conn = get_db_connection(): a new connection object, held by a local
\* name; a failed connect is re-raised and leaves no object: the id-list
\* tool's catch-all records it and responds, execute_sql_query of the
\* risk-filter tool swallows it and the call goes on to format
CallOpen ==
    \E r \in ReqIds, ok \in BOOLEAN :
        /\ pc[r] = "c_open"
        /\ IF ok
           THEN /\ conns' = conns \cup {NewConnection(conns, r)}
                /\ request' = [request EXCEPT ![r].conn = NewConnection(conns, r).n]
                /\ pc' = [pc EXCEPT ![r] = "c_execute"]
                /\ UNCHANGED <<debug, response>>
           ELSE LET written == WriteTrace(debug, request[r].trace, r,
                                          TraceKeys(request[r].name, "error"))
                    returns == request[r].name = "get_product_details_byid"
                IN /\ debug' = written
                   /\ response' = IF returns
                                  THEN SendDebugResponse(r, written[request[r].trace])
                                  ELSE response
                   /\ pc' = [pc EXCEPT ![r] = IF returns THEN "c_done" ELSE "c_format"]
                   /\ UNCHANGED <<conns, request>>
        /\ UNCHANGED <<server, toolResp, raised, calls, filter, query,
                       query_params, rows, invoked>>

\* the statement and its parameters are traced and cursor.execute runs on
\* the call's connection.  On success the rows are fetched, cursor and
\* connection are closed and the rows returned (the id-list tool returns at
\* once when there is no row); a failure leaves the connection open and is
\* caught by the catch-all (id-list tool) or swallowed (risk-filter tool)
CallExecute ==
    \E r \in ReqIds, ok \in BOOLEAN, anyRow \in BOOLEAN :
        /\ pc[r] = "c_execute"
        /\ ~ok => anyRow
        /\ conns' = {IF c = HeldConnection(conns, request[r])
                      THEN [c EXCEPT !.used_by = @ \cup {r}, !.open = ~ok] ELSE c : c \in conns}
        /\ LET written == WriteTrace(debug, request[r].trace, r,
                              TraceKeys(request[r].name, "execute")
                              \cup TraceKeys(request[r].name, IF ok THEN "close" ELSE "error"))
               returns == request[r].name = "get_product_details_byid" /\ (~ok \/ ~anyRow)
           IN /\ debug' = written
              /\ response' = IF returns THEN SendDebugResponse(r, written[request[r].trace])
                             ELSE response
              /\ pc' = [pc EXCEPT ![r] = IF returns THEN "c_done" ELSE "c_format"]
        /\ UNCHANGED <<server, request, toolResp, raised, calls, filter, query,
                       query_params, rows, invoked>>

\* the formatting stage resumes after its prompt fetch: the LLM call, the
\* trace entries, the total time, and the MCPResponse is built around the
\* trace; the risk-filter tool makes no LLM call and no entry of it when
\* the prompt is empty
CallFormat ==
    \E r \in ReqIds, prompted \in BOOLEAN :
        /\ pc[r] = "c_format"
        /\ ~prompted => request[r].name = "filter_products_by_risk_and_type"
        /\ LET written == WriteTrace(debug, request[r].trace, r,
                              TraceKeys(request[r].name,
                                        IF prompted THEN "format" ELSE "format_without_prompt")
                              \cup TraceKeys(request[r].name, "return"))
           IN /\ debug' = written
              /\ response' = SendDebugResponse(r, written[request[r].trace])
        /\ pc' = [pc EXCEPT ![r] = "c_done"]
        /\ UNCHANGED <<server, request, toolResp, raised, calls, conns, filter,
                       query, query_params, rows, invoked>>

NextConcurrent ==
    \/ CallStart
    \/ CallCategories
    \/ CallExtract
    \/ CallOpen
    \/ CallExecute
    \/ CallFormat

SpecConcurrent == InitConcurrent /\ [][NextConcurrent]_vars

(***************************************************************************)
(* server/simple_mcp_server.py: SimpleProductMasterMCP, the client of the  *)
(* product API.  SpecSimple applies search_products_flexible to one answer *)
(* of the API and one set of keyword arguments: request holds the two,     *)
(* response the mapping returned, raised the exception that left the call. *)
(***************************************************************************)
\* the products of GET /api/products; minimum_investment and issuer are
\* nullable, the records carry no description
SimpleApiProducts == <<
    [product_code |-> <<"J", "P001">>, product_name |-> <<"J">>, product_type |-> "bond",
     currency |-> "JPY", minimum_investment |-> Some(100), risk_level |-> 3,
     issuer |-> Some(<<"j">>)],
    [product_code |-> <<"US002">>, product_name |-> <<"j", " ", "J">>, product_type |-> "stock",
     currency |-> "USD", minimum_investment |-> None, risk_level |-> 2,
     issuer |-> None],
    [product_code |-> <<"US003">>, product_name |-> <<"B">>, product_type |-> "bond",
     currency |-> "USD", minimum_investment |-> Some(200), risk_level |-> 1,
     issuer |-> Some(<<"B", "J">>)] >>

\* A decoded JSON body: null, a list, or a mapping whose "products" is
\* itself a list or null.
ApiNull == [t |-> "null"]
ApiList(items) == [t |-> "list", items |-> items]

\* what requests.get(...).json() gives: no answer, a body with the products,
\* a body with numbers only, a body with nulls only, a body without the key,
\* a body that reports an error, a body whose products is null, a body that
\* is the list of products itself, and the body null
ApiAnswers == {
    [ok |-> FALSE, body |-> ApiNull],
    [ok |-> TRUE, body |-> JDict([products |-> ApiList(SimpleApiProducts)])],
    [ok |-> TRUE, body |-> JDict([products |-> ApiList(<<SimpleApiProducts[1],
                                                        SimpleApiProducts[3]>>)])],
    \* two products without a minimum_investment
    [ok |-> TRUE, body |-> JDict([products |-> ApiList(<<SimpleApiProducts[2],
                                                        [SimpleApiProducts[2] EXCEPT
                                                            !.product_code = <<"US004">>]>>)])],
    [ok |-> TRUE, body |-> JDict(EmptyDict)],
    [ok |-> TRUE, body |-> JDict([error |-> "maintenance", detail |-> "retry later"])],
    [ok |-> TRUE, body |-> JDict([products |-> ApiNull])],
    [ok |-> TRUE, body |-> ApiList(<<SimpleApiProducts[1]>>)],
    [ok |-> TRUE, body |-> ApiNull] }

ApiUnreachable == "connection refused"

\* get_all_products (lines 15-22): response.json() whatever it is, or the
\* error mapping when the request raised
get_all_products(api) ==
    IF api.ok THEN api.body
    ELSE JDict([error |-> ApiUnreachable, products |-> ApiList(<<>>)])

\* a keyword argument that may be left out
KwOptions(key, values) == {EmptyDict} \cup {Put(EmptyDict, key, v) : v \in values}

\* limit: an integer or None
IntLimit(n) == [null |-> FALSE, n |-> n]
NullLimit == [null |-> TRUE, n |-> 0]

\* the keyword arguments of a search
AllKwargs ==
    {p[1] @@ p[2] @@ p[3] @@ p[4] @@ p[5] @@ p[6] @@ p[7] @@ p[8] :
        p \in KwOptions("product_types", {<<"bond">>})
              \X KwOptions("currencies", {<<"USD">>})
              \X KwOptions("investment_range",
                           {EmptyDict, [min |-> 0], [max |-> 150], [min |-> 150, max |-> 200]})
              \X KwOptions("risk_levels", {<<>>, <<1, 3>>})
              \X KwOptions("issuer_keywords", {<<<<"J">>>>})
              \X KwOptions("query", {<<>>, <<"J">>})
              \X KwOptions("sort_by", {"investment_desc", "investment_asc", "risk_desc",
                                       "risk_asc", "relevance"})
              \X KwOptions("limit", {IntLimit(0), IntLimit(1), IntLimit(2), IntLimit(5),
                                     IntLimit(-1), NullLimit})}

\* needle in haystack, both lower-cased
LowerIn(needle, haystack) ==
    \E i \in 1..(Len(haystack) + 1) :
        /\ i + Len(needle) - 1 <= Len(haystack)
        /\ LowerStr(SubSeq(haystack, i, i + Len(needle) - 1)) = LowerStr(needle)

\* (p.get("minimum_investment") or 0)
InvestmentOrZero(p) == IF IsSome(p.minimum_investment) THEN Get(p.minimum_investment) ELSE 0
\* (p.get("issuer") or "")
IssuerOrEmpty(p) == IF IsSome(p.issuer) THEN Get(p.issuer) ELSE <<>>
\* str(p.get(field, "")) for the four fields the query is looked up in
SearchedTexts(p) ==
    {p.product_name, <<>>, IF IsSome(p.issuer) THEN Get(p.issuer) ELSE <<"None">>,
     p.product_code}

\* _apply_filters (lines 45-83): one pass per filter that is given and truthy
apply_filters(products, kwargs) ==
    LET f1 == IF Has(kwargs, "product_types") /\ Len(kwargs["product_types"]) > 0
              THEN SelectSeq(products,
                             LAMBDA p : p.product_type \in Range(kwargs["product_types"]))
              ELSE products
        f2 == IF Has(kwargs, "currencies") /\ Len(kwargs["currencies"]) > 0
              THEN SelectSeq(f1, LAMBDA p : p.currency \in Range(kwargs["currencies"]))
              ELSE f1
        ranged == Has(kwargs, "investment_range") /\ DOMAIN kwargs["investment_range"] # {}
        f3a == IF ranged /\ Has(kwargs["investment_range"], "min")
               THEN SelectSeq(f2, LAMBDA p :
                        InvestmentOrZero(p) >= kwargs["investment_range"]["min"])
               ELSE f2
        f3 == IF ranged /\ Has(kwargs["investment_range"], "max")
              THEN SelectSeq(f3a, LAMBDA p :
                       InvestmentOrZero(p) <= kwargs["investment_range"]["max"])
              ELSE f3a
        f4 == IF Has(kwargs, "risk_levels") /\ Len(kwargs["risk_levels"]) > 0
              THEN SelectSeq(f3, LAMBDA p : p.risk_level \in Range(kwargs["risk_levels"]))
              ELSE f3
        f5 == IF Has(kwargs, "issuer_keywords") /\ Len(kwargs["issuer_keywords"]) > 0
              THEN SelectSeq(f4, LAMBDA p :
                       \E k \in Range(kwargs["issuer_keywords"]) : LowerIn(k, IssuerOrEmpty(p)))
              ELSE f4
    IN IF Has(kwargs, "query") /\ Len(kwargs["query"]) > 0
       THEN SelectSeq(f5, LAMBDA p : \E t \in SearchedTexts(p) : LowerIn(kwargs["query"], t))
       ELSE f5

\* the sort key: p.get("minimum_investment", 0) or p.get("risk_level", 0).
\* The default 0 is for a missing key (every product carries both keys); a
\* null minimum_investment gives the key None.
SortKey(p, field) ==
    IF field = "minimum_investment" THEN p.minimum_investment ELSE Some(p.risk_level)

\* sorted(products, key=...): stable, ascending or (reverse=True) descending
RECURSIVE StableSort(_, _, _)
StableSort(products, field, descending) ==
    \* a list of at most one product is returned without a comparison
    IF Len(products) <= 1 THEN products
    ELSE LET first == CHOOSE i \in 1..Len(products) :
                         \A j \in 1..Len(products) :
                            \/ IF descending
                               THEN Get(SortKey(products[j], field))
                                       < Get(SortKey(products[i], field))
                               ELSE Get(SortKey(products[i], field))
                                       < Get(SortKey(products[j], field))
                            \/ (SortKey(products[j], field) = SortKey(products[i], field)
                                /\ i <= j)
             rest == [k \in 1..(Len(products) - 1) |->
                         IF k < first THEN products[k] ELSE products[k + 1]]
         IN <<products[first]>> \o StableSort(rest, field, descending)

\* type(key).__name__
KeyTypeName(key) == IF IsNone(key) THEN "NoneType" ELSE "int"

\* str of the TypeError of "left < right" with a None among the operands
SortTypeError(left, right) ==
    IF left = "int"
    THEN "'<' not supported between instances of 'int' and 'NoneType'"
    ELSE IF right = "int"
    THEN "'<' not supported between instances of 'NoneType' and 'int'"
    ELSE "'<' not supported between instances of 'NoneType' and 'NoneType'"

\* The first comparison of sorted() that has a None operand, for two or more
\* keys with a None among them.  list.sort reverses the keys first when
\* reverse=True, then compares a[1] < a[0], a[2] < a[1], ... while the run
\* lasts and after that each further key, as the left operand, with keys
\* already placed: a None in the first place is the right operand of the
\* first comparison, a later None the left operand of the first comparison
\* it takes part in, the right operand then being an int.
FirstFailingComparison(keys, descending) ==
    LET a == IF descending THEN [i \in 1..Len(keys) |-> keys[Len(keys) + 1 - i]] ELSE keys
    IN IF IsNone(a[1]) \/ IsNone(a[2])
       THEN [left |-> KeyTypeName(a[2]), right |-> KeyTypeName(a[1])]
       ELSE [left |-> "NoneType", right |-> "int"]

\* _apply_sorting (lines 85-96): the sorted list, or the TypeError of
\* comparing a null minimum_investment
apply_sorting(products, sort_by) ==
    IF sort_by \in {"investment_desc", "investment_asc"}
    THEN LET keys == [i \in 1..Len(products) |-> SortKey(products[i], "minimum_investment")]
         IN IF Len(products) > 1 /\ \E i \in 1..Len(keys) : IsNone(keys[i])
            THEN LET c == FirstFailingComparison(keys, sort_by = "investment_desc")
                 IN [ok |-> FALSE, list |-> <<>>, exc |-> SortTypeError(c.left, c.right)]
            ELSE [ok |-> TRUE,
                  list |-> StableSort(products, "minimum_investment",
                                      sort_by = "investment_desc"),
                  exc |-> ""]
    ELSE IF sort_by \in {"risk_desc", "risk_asc"}
    THEN [ok |-> TRUE,
          list |-> StableSort(products, "risk_level", sort_by = "risk_desc"),
          exc |-> ""]
    ELSE [ok |-> TRUE, list |-> products, exc |-> ""]

\* sorted_products[:limit]
SliceTo(list, limit) ==
    IF limit.null THEN list
    ELSE IF limit.n >= 0 THEN SubSeq(list, 1, Min(limit.n, Len(list)))
    ELSE SubSeq(list, 1, Len(list) + limit.n)

\* the keys of kwargs whose value is truthy (line 41)
FiltersApplied(kwargs) ==
    {k \in DOMAIN kwargs :
        IF k = "limit" THEN ~kwargs[k].null /\ kwargs[k].n # 0
        ELSE IF k = "investment_range" THEN DOMAIN kwargs[k] # {}
        ELSE IF k = "sort_by" THEN TRUE
        ELSE Len(kwargs[k]) > 0}

\* search_products_flexible (lines 24-43): the mapping returned, or the
\* exception raised.  "error" in data raises for None and is an element test
\* for a list, data.get raises for a list, and products.copy() (line 47)
\* raises for a null products.
search_products_flexible(api, kwargs) ==
    LET data == get_all_products(api)
    IN IF data.t = "null"
       THEN [returned |-> None,
             raised |-> Some("argument of type 'NoneType' is not iterable")]
       ELSE IF data.t = "list"
       THEN [returned |-> None,
             raised |-> Some("'list' object has no attribute 'get'")]
       ELSE IF Has(data.d, "error")
       THEN [returned |-> Some(data.d), raised |-> None]
       ELSE LET products == IF Has(data.d, "products") THEN data.d["products"]
                            ELSE ApiList(<<>>)
            IN IF products.t = "null"
               THEN [returned |-> None,
                     raised |-> Some("'NoneType' object has no attribute 'copy'")]
               ELSE LET filtered == apply_filters(products.items, kwargs)
                        sorted_products ==
                            apply_sorting(filtered, IF Has(kwargs, "sort_by")
                                                    THEN kwargs["sort_by"] ELSE "relevance")
                        limit == IF Has(kwargs, "limit") THEN kwargs["limit"]
                                 ELSE IntLimit(10)
                        limited == SliceTo(sorted_products.list, limit)
                    IN IF ~sorted_products.ok
                       THEN [returned |-> None, raised |-> Some(sorted_products.exc)]
                       ELSE [returned |-> Some([products |-> ApiList(limited),
                                                total_found |-> Len(filtered),
                                                returned |-> Len(limited),
                                                filters_applied |-> FiltersApplied(kwargs),
                                                query |-> IF Has(kwargs, "query")
                                                          THEN kwargs["query"] ELSE <<>>]),
                             raised |-> None]

InitSimple ==
    /\ pc = "s_call"
    /\ server = "simple"
    /\ request \in {[api |-> a, kwargs |-> k] : a \in ApiAnswers, k \in AllKwargs}
    /\ response = None
    /\ toolResp = None
    /\ raised = None
    /\ debug = EmptyDict
    /\ calls = <<>>
    /\ conns = 0
    /\ filter = None
    /\ query = <<>>
    /\ query_params = <<>>
    /\ rows = <<>>
    /\ invoked = <<>>

\* mcp.search_products_flexible(**kwargs)
SearchProductsFlexible ==
    /\ pc = "s_call"
    /\ LET r == search_products_flexible(request.api, request.kwargs)
       IN /\ response' = r.returned
          /\ raised' = r.raised
    /\ calls' = Append(calls, Call("api", "/api/products", request.api.ok))
    /\ pc' = "s_done"
    /\ UNCHANGED <<server, request, toolResp, debug, conns, filter, query, query_params,
                   rows, invoked>>

NextSimple == SearchProductsFlexible

SpecSimple == InitSimple /\ [][NextSimple]_vars

(***************************************************************************)
(* The await points of one tool call.  SpecAwait follows the coroutine of  *)
(* get_product_details_byid or filter_products_by_risk_and_type from one   *)
(* external call to the next: request holds the tool and the position of   *)
(* the next call in its plan, rows the calls in flight, conns their number,*)
(* calls the log of start and end events, pc whether the coroutine runs.   *)
(***************************************************************************)
\* the external calls a tool awaits, in program order, with their stage
AwaitPlan(tool) ==
    IF tool = "get_product_details_byid"
    THEN << [op |-> "prompt", stage |-> "normalize"], [op |-> "llm", stage |-> "normalize"],
            [op |-> "db", stage |-> "query"],
            [op |-> "prompt", stage |-> "format"], [op |-> "llm", stage |-> "format"] >>
    ELSE << [op |-> "db", stage |-> "normalize"],
            [op |-> "prompt", stage |-> "normalize"], [op |-> "llm", stage |-> "normalize"],
            [op |-> "db", stage |-> "query"],
            [op |-> "prompt", stage |-> "format"], [op |-> "llm", stage |-> "format"] >>

\* the tool returns after this call instead of going on: no ids or no
\* conditions after the normalizer's LLM call; in the id-list tool a failed
\* query or one without rows (the risk tool formats whatever it got); in
\* the risk tool a formatting prompt that is empty
ReturnsAfter(tool, step, ok, usable) ==
    \/ step.op = "llm" /\ step.stage = "normalize" /\ ~usable
    \/ tool = "get_product_details_byid" /\ step.op = "db" /\ (~ok \/ ~usable)
    \* risk_filter.py 195-197: an empty formatting prompt
    \/ tool = "filter_products_by_risk_and_type" /\ step.op = "prompt"
          /\ step.stage = "format" /\ ok /\ ~usable

\* a coroutine that goes on while calls are outstanding
MayIssueUnawaited(inflight) == TRUE

\* await: the coroutine is suspended until the call it made has completed
MayIssue(inflight) == inflight = 0

InitAwait ==
    \* an empty text_input makes the tool return before its first call
    /\ pc \in {"running", "returning"}
    /\ server = "main"
    /\ \E t \in {"get_product_details_byid", "filter_products_by_risk_and_type"} :
          /\ invoked = <<t>>
          /\ request = [tool |-> t, next |-> 1]
    /\ response = None
    /\ toolResp = None
    /\ raised = None
    /\ debug = EmptyDict
    /\ calls = <<>>
    /\ conns = 0
    /\ filter = None
    /\ query = <<>>
    /\ query_params = <<>>
    /\ rows = <<>>

\* the coroutine reaches its next await and the external call starts.  In
\* the risk tool the conditions of the normalizer may be truthy and no
\* mapping (a JSON list, say): build_risk_filter_query then raises inside
\* execute_sql_query before execute_query is awaited (risk_filter.py 153,
\* swallowed at 160-162), the query's database call is left out and the
\* next call is the formatter's prompt fetch.
IssueCall ==
    /\ pc = "running"
    /\ request.next <= Len(AwaitPlan(request.tool))
    /\ MayIssue(conns)
    /\ \E built \in BOOLEAN :
        LET planned == AwaitPlan(request.tool)[request.next]
            at == IF built THEN request.next ELSE request.next + 1
            step == AwaitPlan(request.tool)[at]
        IN /\ ~built => /\ request.tool = "filter_products_by_risk_and_type"
                        /\ planned.op = "db" /\ planned.stage = "query"
           /\ calls' = Append(calls, [ev |-> "start", op |-> step.op, stage |-> step.stage,
                                      at |-> at, ok |-> TRUE])
           /\ rows' = Append(rows, at)
           /\ request' = [request EXCEPT !.next = at + 1]
    /\ conns' = conns + 1
    /\ UNCHANGED <<pc, server, response, toolResp, raised, debug, filter, query,
                   query_params, invoked>>

\* an external call completes, well or not, and the coroutine resumes; it
\* returns at once when the outcome ends the pipeline
CompleteCall ==
    /\ conns > 0
    /\ \E k \in 1..Len(rows), ok \in BOOLEAN, usable \in BOOLEAN :
        LET at == rows[k]
            step == AwaitPlan(request.tool)[at]
        IN /\ calls' = Append(calls, [ev |-> "end", op |-> step.op, stage |-> step.stage,
                                      at |-> at, ok |-> ok])
           /\ rows' = [i \in 1..(Len(rows) - 1) |-> IF i < k THEN rows[i] ELSE rows[i + 1]]
           /\ pc' = IF pc = "running" /\ ReturnsAfter(request.tool, step, ok, usable)
                    THEN "returning" ELSE pc
    /\ conns' = conns - 1
    /\ UNCHANGED <<server, request, response, toolResp, raised, debug, filter, query,
                   query_params, invoked>>

\* the tool function returns its response: after the last call of the plan,
\* or early
ReturnResponse ==
    /\ \/ pc = "returning"
       \/ pc = "running" /\ request.next > Len(AwaitPlan(request.tool)) /\ MayIssue(conns)
    /\ pc' = "returned"
    /\ toolResp' = Some(MCPResponse(None, None, None, None))
    /\ UNCHANGED <<server, request, response, raised, debug, calls, conns, filter, query,
                   query_params, rows, invoked>>

NextAwait == IssueCall \/ CompleteCall \/ ReturnResponse

SpecAwait == InitAwait /\ [][NextAwait]_vars

(***************************************************************************)
(* utils/llm_util.py: the three functions of LLMUtil, each called once     *)
(* from one of its call sites.  Here request is the call (call site,       *)
(* function, outcome of the model invocation, the model's answer, system   *)
(* prompt and user message), response is what the function returned,       *)
(* raised is the exception that left it, calls is the invocation made,     *)
(* debug names the except branch the calling function entered, and pc is   *)
(* "gateway_call", "gateway_returned" or "caller_returned".                *)
(***************************************************************************)
\* lines 81-87: invoke_model, body.read(), json.loads, ['content'][0]['text']
InvokeOutcomes == {"ok", "invoke_model_error", "body_not_json", "no_content_text"}

\* the try block of lines 67-87 / 98-115 reaches its return statement
InvokeSucceeds(outcome) == outcome = "ok"

\* A value tagged k = "raise" stands for an exception leaving a function in
\* place of a return value.
\* f"ERROR: {str(e)}" of line 50
ErrorPrefixText == [k |-> "error_prefix"]

\* what the hosted model may answer
GatewayAnswers == TextAnswers \cup IdAnswers \cup FilterAnswers \cup RiskAnswers

GatewayFunctions == {"call_claude", "call_llm_simple", "call_claude_with_llm_info"}

\* f"System: {system_prompt}\\n\\nUser: {user_message}" of line 42
FullPrompt(system_prompt, user_message) ==
    <<"System: ", system_prompt.key, "\\n\\nUser: ">> \o user_message

\* call_claude_with_llm_info (lines 27-51): (response, prompt, response, time)
call_claude_with_llm_info(system_prompt, user_message, ok, answer) ==
    LET full_prompt == FullPrompt(system_prompt, user_message)
        answered == call_claude(ok, answer)
    IN IF answered.k = "raise"      \* the except branch of lines 48-51
       THEN [response |-> ErrorPrefixText, prompt |-> full_prompt,
             llm_response |-> ErrorPrefixText, execution_time |-> Elapsed]
       ELSE [response |-> answered, prompt |-> full_prompt,
             llm_response |-> answered, execution_time |-> Elapsed]

\* The statements of this repository that call the gateway, each with the
\* function it is in and the gateway function it calls.
\* call_claude_with_llm_info has no call site.
CallSites == {
    [caller |-> "extract_product_ids_with_llm", line |-> 103, fn |-> "call_llm_simple"],
    [caller |-> "format_product_search_results", line |-> 189, fn |-> "call_llm_simple"],
    [caller |-> "extract_search_conditions_with_llm", line |-> 132, fn |-> "call_claude"],
    [caller |-> "format_results_with_llm", line |-> 209, fn |-> "call_claude"],
    [caller |-> "search_products_by_name_fuzzy", line |-> 66, fn |-> "call_llm_simple"],
    [caller |-> "search_products_by_name_fuzzy", line |-> 106, fn |-> "call_llm_simple"],
    [caller |-> "search_products_by_name_fuzzy", line |-> 146, fn |-> "call_llm_simple"] }

\* a call of a gateway function from outside the tools
DirectCall(fn) == [caller |-> "none", line |-> 0, fn |-> fn]

\* what the model may answer to the prompt of a call site
SiteAnswers(site) ==
    IF site.caller = "none" THEN GatewayAnswers
    ELSE IF site.caller = "extract_product_ids_with_llm" THEN IdAnswers
    ELSE IF site.caller = "extract_search_conditions_with_llm" THEN RiskAnswers
    ELSE IF site.line = 106 THEN FilterAnswers
    ELSE TextAnswers

\* The except branch that the statements after a call site enter, given what
\* the gateway call gave (a value tagged "raise" is an exception):
\*   product_search.py 110-144 and 189-201, risk_filter.py 136-147 and 209-216,
\*   fuzzy_name_search.py 66-75, 106-134, 146-166.
CallerHandles(site, given) ==
    IF given.k = "raise" THEN "except Exception"
    ELSE IF site.caller = "extract_product_ids_with_llm"
    THEN LET parsed == LiteralEval(given)
             converted == IF parsed.ok THEN IntConversion(given.elems) ELSE parsed
         IN IF converted.ok THEN "none"
            ELSE IF converted.exc \in {"ValueError", "SyntaxError", "TypeError"}
            THEN "except (ValueError, SyntaxError, TypeError)"
            ELSE "except Exception"
    ELSE IF site.caller = "extract_search_conditions_with_llm"
    THEN IF JsonLoads(given).ok THEN "none" ELSE "except json.JSONDecodeError"
    ELSE IF site.caller = "search_products_by_name_fuzzy" /\ site.line = 66
    THEN IF Len(Strip(TextOf(given))) = 0
         THEN "except Exception"        \* the ValueError of line 75
         ELSE "none"
    ELSE IF site.caller = "search_products_by_name_fuzzy" /\ site.line = 106
    THEN IF given.k = "bad_json" THEN "except json.JSONDecodeError" ELSE "none"
    ELSE "none"                         \* return response.strip()

InitGateway ==
    /\ pc = "gateway_call"
    /\ server = "main"
    /\ \E fn \in GatewayFunctions, outcome \in InvokeOutcomes,
          user_message \in Strings(MaxTextLen) :
        \E site \in {c \in CallSites : c.fn = fn} \cup {DirectCall(fn)} :
        \E answer \in SiteAnswers(site) :
          request = [fn |-> fn, site |-> site, outcome |-> outcome, answer |-> answer,
                     system_prompt |-> get_system_prompt("format_product_search_results", "ok"),
                     user_message |-> user_message]
    /\ response = None
    /\ toolResp = None
    /\ raised = None
    /\ debug = EmptyDict
    /\ calls = <<>>
    /\ conns = 0
    /\ filter = None
    /\ query = <<>>
    /\ query_params = <<>>
    /\ rows = <<>>
    /\ invoked = <<>>

\* one call of a gateway function, up to its return or to the exception leaving it
CallGateway ==
    /\ pc = "gateway_call"
    /\ LET ok == InvokeSucceeds(request.outcome)
           returned ==
               IF request.fn = "call_claude" THEN call_claude(ok, request.answer)
               ELSE IF request.fn = "call_llm_simple" THEN call_llm_simple(ok, request.answer)
               ELSE call_claude_with_llm_info(request.system_prompt, request.user_message,
                                              ok, request.answer).response
       IN /\ calls' = <<LlmCall(request.system_prompt.kind, ok)>>
          /\ IF returned.k = "raise"
             THEN /\ raised' = Some(request.outcome)
                  /\ UNCHANGED response
             ELSE /\ response' = Some(returned)
                  /\ UNCHANGED raised
    /\ pc' = "gateway_returned"
    /\ UNCHANGED <<server, request, toolResp, debug, conns, filter, query,
                   query_params, rows, invoked>>

\* the statements of the calling function that follow the gateway call, up to
\* the except branch they enter or to the function's return; debug records
\* which branch that was
CallerContinues ==
    /\ pc = "gateway_returned"
    /\ request.site.caller # "none"
    /\ LET given == IF IsSome(raised) THEN [k |-> "raise"] ELSE Get(response)
       IN debug' = [handler |-> CallerHandles(request.site, given)]
    /\ pc' = "caller_returned"
    /\ UNCHANGED <<server, request, response, toolResp, raised, calls, conns, filter,
                   query, query_params, rows, invoked>>

NextGateway == CallGateway \/ CallerContinues

SpecGateway == InitGateway /\ [][NextGateway]_vars

(***************************************************************************)
(* Properties of the endpoints and the tool pipelines.                     *)
(***************************************************************************)
\* C1: every response POST /mcp returns, on either server and whatever the
\* tool returned or raised, carries the id of the request it answers.
C1_ResponseIdIsRequestId ==
    pc = "done" => IsSome(response) /\ Get(response).id = Some(request.id)

\* the endpoint's own exception path on main.py: get_tool_function raised,
\* no tool ran, and the handler of line 130 built the response
C1_Witness ==
    /\ pc = "done"
    /\ server = "main"
    /\ request.method = "tools/call"
    /\ IsSome(raised)
    /\ IsNone(toolResp)
    /\ invoked = <<>>
    /\ Get(Get(response).debug_response).error_type = "KeyError"
    /\ Get(Get(response).debug_response).params = RequestParams(request)
    /\ request.id = MaxReqId

\* text_input is absent or the empty string
EmptyOrMissing(arg) == arg.kind = "missing" \/ (arg.kind = "str" /\ Len(arg.s) = 0)

\* the sentence a tool answers with when it is given no text_input
RequiredMessageOf(tool) ==
    IF tool = "search_products_by_name_fuzzy" THEN FuzzyInputRequired
    ELSE IF tool = "get_product_details" THEN DetailsInputRequired
    ELSE InputRequired

\* C2: a tool called with an empty or missing text_input makes no database,
\* prompt-store or LLM call, raises nothing, and answers with a result that
\* contains its input-required sentence.
C2_EmptyInputRejectedWithoutCalls ==
    (invoked # <<>> /\ EmptyOrMissing(request.arg)) =>
        /\ calls = <<>>
        /\ conns = 0
        /\ IsNone(raised)
        /\ pc \in {"tool_return", "done"} =>
              /\ IsSome(toolResp)
              /\ IsSome(Get(toolResp).result)
              /\ Contains(Get(Get(toolResp).result).text, RequiredMessageOf(invoked[1]))
        /\ pc = "done" =>
              /\ IsSome(Get(response).result)
              /\ Contains(Get(Get(response).result).text, RequiredMessageOf(invoked[1]))

\* the fuzzy search answered a request that has no text_input key
C2_Witness ==
    /\ pc = "done"
    /\ invoked = <<"search_products_by_name_fuzzy">>
    /\ request.arg.kind = "missing"
    /\ IsSome(Get(response).result)

\* some collaborator failed during this request
SomeCallFailed == \E i \in 1..Len(calls) : ~calls[i].ok

\* C3: whatever fails (prompt store, LLM, database connection, statement), a
\* tool function ends by returning a response, never by raising, and after a
\* failure that response has its error set and carries the trace.
C3_NoExceptionEscapesATool ==
    pc = "tool_return" =>
        /\ IsNone(raised)
        /\ IsSome(toolResp)
        /\ SomeCallFailed =>
              /\ IsSome(Get(toolResp).error)
              /\ IsSome(Get(toolResp).debug_response)

\* the sentences and prefixes a result opens with when it reports a failure
FailureOpenings ==
    {InputRequired, DetailsInputRequired, ProductIdNotFound, ByIdErrorPrefix,
     IdExtractErrorPrefix, ConditionExtractFailed, RiskErrorPrefix, FuzzyErrorPrefix,
     TextifyFailedPrefix, SqlErrorPrefix, ArrayParseErrorPrefix,
     "Unknown tool: ", "Unknown method: ", "Tool function not found: ", "server error: "}

\* a response that reports a failure, by its error field or by its result
ReportsFailure(r) ==
    \/ IsSome(r.error)
    \/ /\ IsSome(r.result)
       /\ Get(r.result).kind \in {"text", "content"}
       /\ Len(Get(r.result).text) > 0
       /\ Get(r.result).text[1] \in FailureOpenings

\* C4: a response that reports a failure carries a sentence in result, a
\* non-null error and a non-null debug_response, all three.
C4_FailureCarriesResultErrorAndTrace ==
    (pc = "done" /\ ReportsFailure(Get(response))) =>
        /\ IsSome(Get(response).result)
        /\ IsSome(Get(response).error)
        /\ IsSome(Get(response).debug_response)

\* the names tools/call dispatches to a function, per server
Dispatched(srv, name) ==
    IF srv = "main"
    THEN name \in {"get_product_details_byid", "filter_products_by_risk_and_type",
                   "search_products_by_name_fuzzy"}
    ELSE name = "get_product_details"

\* the names the server's registry holds
Registered(srv, name) ==
    IF srv = "main"
    THEN name \in {ToolsConfig[i].name : i \in 1..Len(ToolsConfig)}
    ELSE name = "get_product_details"

\* C5: a tool function is invoked only by tools/call with a registered name,
\* and then it is the function of that name; tools/call with an unregistered
\* name is answered "Unknown tool: <name>" and a method other than
\* initialize, tools/list and tools/call is answered "Unknown method:
\* <method>", both as ordinary responses with nothing invoked or raised.
C5_OnlyRegisteredToolsAreInvoked ==
    /\ invoked # <<>> =>
          /\ request.method = "tools/call"
          /\ Registered(server, request.name)
          /\ invoked = <<request.name>>
    /\ (pc = "done" /\ request.method = "tools/call"
          /\ ~Registered(server, request.name)) =>
          /\ Get(response).error = Some(<<"Unknown tool: ", request.name>>)
          /\ invoked = <<>>
          /\ IsNone(raised)
          /\ calls = <<>>
    /\ (pc = "done" /\ request.method \notin {"initialize", "tools/list", "tools/call"}) =>
          /\ Get(response).error = Some(<<"Unknown method: ", request.method>>)
          /\ Get(response).id = Some(request.id)
          /\ invoked = <<>>
          /\ IsNone(raised)
          /\ calls = <<>>

\* the main server answered tools/call for a name it does not hold
C5_Witness ==
    /\ pc = "done"
    /\ server = "main"
    /\ request.method = "tools/call"
    /\ request.name = "no_such_tool"
    /\ IsSome(Get(response).error)
    /\ invoked = <<>>

\* the number of calls made to one collaborator during this request
CallsTo(op) == Cardinality({i \in 1..Len(calls) : calls[i].op = op})

\* the tool has returned, and its result formatter was handed no rows
FormatterRanOnEmpty ==
    /\ pc = "tool_return"
    /\ invoked # <<>>
    /\ IsSome(toolResp)
    /\ rows = <<>>
    /\ IF invoked[1] = "filter_products_by_risk_and_type"
       THEN debug["step3_format_results.execution_time_ms"].measured
       ELSE IF invoked[1] = "get_product_details"
       THEN Has(debug, "error_type") /\ debug["error_type"] = "NONE"
       ELSE IF invoked[1] = "get_product_details_byid"
       THEN Has(debug, "format_prompt")
       ELSE FALSE

\* C6: a formatter handed an empty result set answers with the fixed
\* no-results sentence and calls neither the prompt store nor the LLM: the
\* only prompt-store and LLM calls of the request are those of the stage
\* that normalized the input.
C6_EmptyResultSetIsFormattedWithoutCalls ==
    FormatterRanOnEmpty =>
        /\ CallsTo("llm") <= 1
        /\ CallsTo("prompt") <= 1
        /\ Get(Get(toolResp).result).text \in {<<NoProductsSentence>>, <<NoProductForIds>>}

\* C7: a query builder binds as many parameters as its SQL text has %s
\* placeholders, leaves the filter as it was, and built again from the same
\* filter gives the same SQL text and the same parameters.
C7_QueryBuilderIsPure ==
    /\ [](pc \in {"built", "rebuilt"} =>
             /\ Len(query) > 0
             /\ Len(query_params) = CountPlaceholders(query))
    /\ [][pc = "build" => filter' = filter]_vars
    /\ [][pc = "built" => /\ pc' = "rebuilt"
                          /\ query' = query
                          /\ query_params' = query_params
                          /\ filter' = filter]_vars

\* the risk query was built twice from a filter with both lists set
C7_Witness ==
    /\ pc = "rebuilt"
    /\ server = "risk"
    /\ FieldSet(Get(filter), "risk_levels")
    /\ FieldSet(Get(filter), "category_types")
    /\ Len(query_params) > MaxListLen

\* normalized_params.get(key) is truthy
DetailsFieldSet(f, key) ==
    /\ IsSome(ParamGet(f, key))
    /\ IF key = "product_code" THEN Get(ParamGet(f, key)).code # ""
       ELSE Len(Get(ParamGet(f, key)).name) > 0

\* how often a fragment occurs in a SQL text
Occurrences(q, frag) == Cardinality({i \in 1..Len(q) : q[i] = frag})

\* C8: with a product_code the code/name query has one equality predicate on
\* product_code bound to the code and no predicate on product_name, with or
\* without a product_name; with a product_name only it has one ILIKE
\* predicate bound to the name between two % wildcards.
C8_CodeTakesPrecedenceOverName ==
    (server = "details" /\ pc \in {"built", "rebuilt"}) =>
        LET f == Get(filter)
        IN /\ DetailsFieldSet(f, "product_code") =>
                /\ Occurrences(query, " AND product_code = ") = 1
                /\ Occurrences(query, " AND product_name ILIKE ") = 0
                /\ query = <<"SELECT * FROM products WHERE 1=1", " AND product_code = ", "%s">>
                /\ query_params = <<[eq |-> f["product_code"].code, like |-> <<>>]>>
           /\ (~DetailsFieldSet(f, "product_code") /\ DetailsFieldSet(f, "product_name")) =>
                /\ Occurrences(query, " AND product_name ILIKE ") = 1
                /\ Occurrences(query, " AND product_code = ") = 0
                /\ query = <<"SELECT * FROM products WHERE 1=1", " AND product_name ILIKE ", "%s">>
                /\ query_params =
                       <<[eq |-> "", like |-> <<"%">> \o f["product_name"].name \o <<"%">>]>>

\* the query was built from a filter holding a code and a name
C8_Witness ==
    /\ pc = "built"
    /\ server = "details"
    /\ DetailsFieldSet(Get(filter), "product_code")
    /\ DetailsFieldSet(Get(filter), "product_name")
    /\ Occurrences(query, " AND product_code = ") = 1

\* C9: every query built ends with a row cap and the rows handed on are no
\* more than the cap; the query for product_code JP001 is "SELECT * FROM
\* products WHERE 1=1 AND product_code = %s LIMIT 50" with params [JP001].
C9_EveryQueryEndsWithARowCap ==
    Len(query) > 0 =>
        /\ IsSome(LimitOf(query))
        /\ Len(rows) <= Get(LimitOf(query))
        /\ (invoked = <<"get_product_details">>
              /\ query_params = <<[eq |-> "JP001", like |-> <<>>]>>) =>
              query = <<"SELECT * FROM products WHERE 1=1", " AND product_code = ", "%s",
                        " LIMIT 50">>

\* the tool normalized its input to a filter object in which no field is set
NoFieldSet ==
    /\ invoked # <<>>
    /\ IsSome(filter)
    /\ IF invoked[1] = "filter_products_by_risk_and_type"
       THEN /\ Get(filter).t = "dict"
            /\ ~FieldSet(Get(filter), "risk_levels")
            /\ ~FieldSet(Get(filter), "category_types")
       ELSE IF invoked[1] = "get_product_details"
       THEN /\ ~DetailsFieldSet(Get(filter), "product_code")
            /\ ~DetailsFieldSet(Get(filter), "product_name")
       ELSE FALSE

\* C10: a filter with no field set is not a failure: with every collaborator
\* working, the tool builds the base query with no predicate and no
\* parameter, executes it, and returns without an error.
C10_EmptyFilterRunsTheBaseQuery ==
    (pc = "tool_return" /\ NoFieldSet /\ ~SomeCallFailed) =>
        /\ IsSome(toolResp)
        /\ IsNone(Get(toolResp).error)
        /\ query = IF invoked[1] = "filter_products_by_risk_and_type"
                   THEN <<RiskBaseQuery, " ORDER BY risk_level, product_name", " LIMIT 20">>
                   ELSE <<"SELECT * FROM products WHERE 1=1">>
        /\ query_params = <<>>
        /\ \E i \in 1..Len(calls) : calls[i] = Call("db", "execute", TRUE)

\* C11: a database call leaves no connection open behind it: whenever a
\* query step has finished, with rows or with a statement error, every
\* connection the request opened has been closed.
C11_EveryConnectionIsClosed ==
    conns = 0

\* the search query of this request (a database call made after the
\* normalizing LLM call) failed to connect or to execute
SearchQueryFailed ==
    \E i, j \in 1..Len(calls) :
        /\ i < j
        /\ calls[i].op = "llm"
        /\ calls[j].op = "db"
        /\ ~calls[j].ok

\* the trace of a tool's response records an error
TraceErrorSet(tool, d) ==
    IF tool \in {"filter_products_by_risk_and_type", "search_products_by_name_fuzzy"}
    THEN IsSome(d["error"])
    ELSE IF tool = "get_product_details_byid"
    THEN Has(d, "error")
    ELSE Has(d, "error_type") /\ d["error_type"] # "NONE"

\* nothing but the database failed during this request
OnlyDatabaseFailed == \A i \in 1..Len(calls) : calls[i].op # "db" => calls[i].ok

\* C12: a failure of the search query is not swallowed on its way to the
\* tool's top-level function: the response of a request whose search query
\* failed (and in which nothing else failed) never has both its error and
\* its trace error unset.
C12_QueryFailureIsNotSwallowed ==
    (pc = "tool_return" /\ SearchQueryFailed /\ OnlyDatabaseFailed /\ IsSome(toolResp)) =>
        \/ IsSome(Get(toolResp).error)
        \/ /\ IsSome(Get(toolResp).debug_response)
           /\ TraceErrorSet(invoked[1], Get(Get(toolResp).debug_response))

\* the prompt store failed to hand out a template during this request
PromptFailed == \E i \in 1..Len(calls) : calls[i].op = "prompt" /\ ~calls[i].ok

\* C13: when the prompt store is unreachable or answers with another status
\* than 200, nothing is raised: get_system_prompt hands back its error text
\* (the id-list trace holds it as the prompt), the id-list normalizer still
\* returns a list and records its result, and the tool call ends with a
\* response that carries the trace.
C13_PromptStoreFailureEndsInAResponse ==
    PromptFailed =>
        /\ IsNone(raised)
        /\ pc \in {"tool_return", "done"} =>
              /\ IsSome(toolResp)
              /\ IsSome(Get(toolResp).debug_response)
        /\ (invoked = <<"get_product_details_byid">> /\ ~calls[1].ok) =>
              /\ IsSome(filter)
              /\ Has(debug, "extract_ids_prompt")
              /\ debug["extract_ids_prompt"].kind = "error"
              /\ debug["extract_ids_prompt"].why \in {"status", "error"}
              /\ Has(debug, "extract_ids_final_result")

\* the id-list tool returned a response although the prompt store had failed
\* on the extraction prompt, and the normalizer had still found ids
C13_Witness ==
    /\ pc = "tool_return"
    /\ invoked = <<"get_product_details_byid">>
    /\ Len(calls) > 1
    /\ calls[1].op = "prompt"
    /\ ~calls[1].ok
    /\ IsSome(toolResp)
    /\ IsSome(filter)
    /\ Len(Get(filter)) > 0

\* C14: however concurrent tool calls interleave, the trace returned for a
\* request holds only entries that request wrote, two calls never share a
\* trace dict, a connection is used only by the call that opened it, and no
\* tool step changes a module-level object.
C14_RequestsShareNoMutableState ==
    /\ [](\A r \in ReqIds :
             /\ IsSome(response[r]) => \A e \in Get(response[r]) : e.by = r
             /\ \A s \in ReqIds :
                   (r # s /\ request[r].trace # 0) => request[r].trace # request[s].trace)
    /\ [](\A c \in conns : c.used_by \subseteq {c.by})
    /\ [][server' = server]_vars

\* a call that started second has answered while the first one is still in
\* flight with entries in its own trace
C14_Witness ==
    /\ \E r, s \in ReqIds :
          /\ pc[r] = "c_done"
          /\ pc[s] \in {"c_execute", "c_format"}
          /\ request[r].trace > request[s].trace
          /\ Get(response[r]) # {}
          /\ debug[request[s].trace] # {}
          /\ request[s].conn # 0

\* the id-list tool ran its statement in this request and the database answered
IdQueryAnswered ==
    /\ server = "main"
    /\ invoked = <<"get_product_details_byid">>
    /\ pc \in {"byid_format", "tool_return"}
    /\ query # <<>>
    /\ \A i \in 1..Len(calls) : calls[i].op = "db" => calls[i].ok

\* the rows of the catalog whose primary key is one of the ids
MatchedRows(ids) ==
    SelectSeq(Catalog, LAMBDA r : \E i \in 1..Len(ids) : ids[i] = r.product_id)

\* C15: in the id-list tool a non-empty extracted id list is looked up with
\* the one statement "product_id = ANY(%s)" and the whole list as its single
\* parameter (and only a non-empty list reaches the query); when some of the
\* ids have a row and others none, the response carries no error and the
\* formatter is given exactly the rows that matched.
C15_IdListIsOneAnyQueryAndPartialMatchSucceeds ==
    /\ (server = "main" /\ invoked = <<"get_product_details_byid">> /\ query # <<>>) =>
          /\ IsSome(filter)
          /\ Len(Get(filter)) > 0
          /\ query = <<"SELECT * FROM products WHERE product_id = ANY(", "%s", ")">>
          /\ query_params = <<Get(filter)>>
          /\ debug["search_query"] = query
          /\ debug["search_params"] = query_params
          /\ Cardinality({i \in 1..Len(calls) :
                            calls[i].op = "db" /\ calls[i].detail = "execute"}) = 1
    /\ IdQueryAnswered =>
          /\ rows = MatchedRows(Get(filter))
          /\ (pc = "tool_return" /\ Len(MatchedRows(Get(filter))) > 0) =>
                /\ IsSome(toolResp)
                /\ IsNone(Get(toolResp).error)
                /\ ~Has(debug, "error")
                /\ Has(debug, "format_llm_request")
                /\ debug["format_llm_request"].products = MatchedRows(Get(filter))

\* ids 1 and 3 were extracted, only product 1 exists, and the tool has
\* answered from the one matched row
C15_Witness ==
    /\ IdQueryAnswered
    /\ pc = "tool_return"
    /\ Get(filter) = <<1, 3>>
    /\ Len(rows) = 1
    /\ rows[1].product_id = 1
    /\ IsSome(toolResp)
    /\ IsNone(Get(toolResp).error)

\* the product passes every filter that the keyword arguments give
PassesAllFilters(p, kw) ==
    /\ (Has(kw, "product_types") /\ kw["product_types"] # <<>>) =>
          \E i \in 1..Len(kw["product_types"]) : kw["product_types"][i] = p.product_type
    /\ (Has(kw, "currencies") /\ kw["currencies"] # <<>>) =>
          \E i \in 1..Len(kw["currencies"]) : kw["currencies"][i] = p.currency
    /\ (Has(kw, "investment_range") /\ Has(kw["investment_range"], "min")) =>
          (IF p.minimum_investment = None THEN 0 ELSE p.minimum_investment[1])
             >= kw["investment_range"]["min"]
    /\ (Has(kw, "investment_range") /\ Has(kw["investment_range"], "max")) =>
          (IF p.minimum_investment = None THEN 0 ELSE p.minimum_investment[1])
             <= kw["investment_range"]["max"]
    /\ (Has(kw, "risk_levels") /\ kw["risk_levels"] # <<>>) =>
          \E i \in 1..Len(kw["risk_levels"]) : kw["risk_levels"][i] = p.risk_level
    /\ (Has(kw, "issuer_keywords") /\ kw["issuer_keywords"] # <<>>) =>
          /\ p.issuer # None
          /\ \E i \in 1..Len(kw["issuer_keywords"]) : LowerIn(kw["issuer_keywords"][i], p.issuer[1])
    /\ (Has(kw, "query") /\ kw["query"] # <<>>) =>
          \/ LowerIn(kw["query"], p.product_name)
          \/ LowerIn(kw["query"], p.product_code)
          \/ LowerIn(kw["query"], IF p.issuer = None THEN <<"None">> ELSE p.issuer[1])

\* the products a body serves: those of its "products" list, none otherwise
Served(body) ==
    IF body.t = "dict" /\ Has(body.d, "products") /\ body.d["products"].t = "list"
    THEN body.d["products"].items
    ELSE <<>>

\* the positions of the served products that pass every filter
Passing(body, kw) ==
    {i \in 1..Len(Served(body)) : PassesAllFilters(Served(body)[i], kw)}

\* the limit in force when it is a non-negative integer: the one given, or 10
NonNegativeLimit(kw) ==
    IF ~Has(kw, "limit") THEN Some(10)
    ELSE IF ~kw["limit"].null /\ kw["limit"].n >= 0 THEN Some(kw["limit"].n)
    ELSE None

\* the mapping has "products", "total_found" and "returned"; total_found is
\* the number of served products that pass all filters, every returned
\* product is one of them, none twice, and for a non-negative limit
\* returned = len(products) = min(limit, total_found)
CountedPage(r, body, kw) ==
    LET found == Passing(body, kw)
    IN /\ {"products", "total_found", "returned"} \subseteq DOMAIN r
       /\ r["total_found"] = Cardinality(found)
       /\ r["returned"] = Len(r["products"].items)
       /\ \A i \in 1..Len(r["products"].items) :
             /\ PassesAllFilters(r["products"].items[i], kw)
             /\ \E j \in found : Served(body)[j] = r["products"].items[i]
       /\ \A i, j \in 1..Len(r["products"].items) :
             i # j => r["products"].items[i] # r["products"].items[j]
       /\ IsSome(NonNegativeLimit(kw)) =>
             r["returned"] = Min(Get(NonNegativeLimit(kw)), r["total_found"])

\* C16: SimpleProductMasterMCP.search_products_flexible returns a mapping,
\* whatever the API answered and whatever the keyword arguments: the error
\* mapping of get_all_products (key "error", empty "products") when the
\* catalog fetch failed, and otherwise a mapping with "products",
\* "total_found" and "returned" in which total_found is the number of
\* products passing all filters and, for every non-negative limit,
\* returned = len(products) = min(limit, total_found).
C16_SearchReturnsErrorMappingOrCountedPage ==
    (server = "simple" /\ pc = "s_done") =>
        /\ IsNone(raised)
        /\ IsSome(response)
        /\ IF request.api.ok
           THEN CountedPage(Get(response), request.api.body, request.kwargs)
           ELSE /\ DOMAIN Get(response) = {"error", "products"}
                /\ Get(response)["products"] = ApiList(<<>>)

\* C16, the calls the claim holds for: the fetch failed, or the body is a
\* mapping without an "error" key whose "products" is a list or absent, and
\* the sort is not by investment over two or more found products with a
\* null minimum_investment among them.
C16_WellFormedBodyGivesTheCountedPage ==
    (server = "simple" /\ pc = "s_done") =>
        LET api == request.api
            kw == request.kwargs
            found == Passing(api.body, kw)
            null_key_sorted ==
                /\ Has(kw, "sort_by")
                /\ kw["sort_by"] \in {"investment_desc", "investment_asc"}
                /\ Cardinality(found) > 1
                /\ \E i \in found : Served(api.body)[i].minimum_investment = None
            well_formed ==
                /\ api.body.t = "dict"
                /\ ~Has(api.body.d, "error")
                /\ Has(api.body.d, "products") => api.body.d["products"].t = "list"
        IN /\ ~api.ok =>
                /\ IsNone(raised)
                /\ IsSome(response)
                /\ DOMAIN Get(response) = {"error", "products"}
                /\ Get(response)["products"] = ApiList(<<>>)
           /\ (api.ok /\ well_formed /\ ~null_key_sorted) =>
                /\ IsNone(raised)
                /\ IsSome(response)
                /\ CountedPage(Get(response), api.body, kw)
           /\ (api.ok /\ well_formed /\ null_key_sorted) =>
                /\ IsSome(raised)
                /\ IsNone(response)
           /\ (api.ok /\ ~well_formed) =>
                \/ IsSome(raised) /\ IsNone(response) /\ ~(api.body.t = "dict" /\ Has(api.body.d, "error"))
                \/ IsNone(raised) /\ response = Some(api.body.d)

\* the API served two products without a minimum_investment, both were
\* found, and the sort by investment raised the TypeError of None < None
C16_Witness ==
    /\ server = "simple"
    /\ pc = "s_done"
    /\ request.api.ok
    /\ Cardinality(Passing(request.api.body, request.kwargs)) = 2
    /\ Has(request.kwargs, "sort_by")
    /\ request.kwargs["sort_by"] = "investment_asc"
    /\ IsNone(response)
    /\ raised = Some(SortTypeError("NoneType", "NoneType"))

\* the id-list normalizer ran and the LLM's answer was not a list
IdAnswerUnparsable ==
    /\ invoked = <<"get_product_details_byid">>
    /\ Has(debug, "extract_ids_llm_response")
    /\ debug["extract_ids_llm_response"].k # "list"

\* the risk-filter normalizer ran and the LLM's answer was not a JSON object
ConditionsAnswerUnparsable ==
    /\ invoked = <<"filter_products_by_risk_and_type">>
    /\ Has(debug, "step1_extract_conditions.llm_response")
    /\ IsSome(debug["step1_extract_conditions.llm_response"])
    /\ LET resp == Get(debug["step1_extract_conditions.llm_response"])
       IN ~(resp.k = "json" /\ resp.v.t = "dict")

\* C17: when the LLM output of a normalizer cannot be parsed into the
\* expected shape, the normalizer raises nothing, returns its sentinel (the
\* empty id list, None for the conditions), and the trace records the
\* parse error: extract_ids_parsed_successfully = False together with
\* extract_ids_parse_error in the id-list tool, parsed_conditions holding
\* the error text in the risk-filter tool.
C17_ParseFailureGivesFlaggedSentinel ==
    /\ IdAnswerUnparsable =>
          /\ IsNone(raised)
          /\ filter = Some(<<>>)
          /\ Has(debug, "extract_ids_parsed_successfully")
          /\ debug["extract_ids_parsed_successfully"] = FALSE
          /\ Has(debug, "extract_ids_parse_error")
    /\ ConditionsAnswerUnparsable =>
          LET resp == Get(debug["step1_extract_conditions.llm_response"])
          IN /\ IsNone(raised)
             /\ IsNone(filter) \/ Get(filter).t = "null"
             /\ Has(debug, "step1_extract_conditions.parsed_conditions")
             \* a JSON answer leaves its parsed value in the field, never a text
             /\ resp.k # "json"
             /\ debug["step1_extract_conditions.parsed_conditions"]
                   = Some(<<"JSON parse error: ", "Expecting value">>)

\* the tool has answered after its normalizer failed and handed back the
\* sentinel: the empty id list for an answer that is no list, None for the
\* conditions
AnsweredAfterSentinel ==
    /\ pc = "tool_return"
    /\ IsSome(toolResp)
    /\ \/ IdAnswerUnparsable /\ filter = Some(<<>>)
       \/ /\ invoked = <<"filter_products_by_risk_and_type">>
          /\ Has(debug, "step1_extract_conditions.llm_response")
          /\ IsSome(debug["step1_extract_conditions.llm_response"])
          /\ IsNone(filter)

\* C18: when the normalizer returns its sentinel the tool skips the query
\* stage and answers at once: no search statement was built or executed in
\* the request, the only LLM call is the normalizer's own, and the result
\* is the error sentence that carries the parse-error text recorded in the
\* trace.
C18_SentinelSkipsQueryAndFormatsTheError ==
    AnsweredAfterSentinel =>
        /\ query = <<>>
        /\ ~Has(debug, "search_query")
        /\ \A i, j \in 1..Len(calls) :
              (calls[i].op = "llm" /\ i < j) => calls[j].op \notin {"db", "llm", "prompt"}
        /\ Cardinality({i \in 1..Len(calls) : calls[i].op = "llm"}) = 1
        /\ IsSome(Get(toolResp).result)
        /\ IF invoked = <<"get_product_details_byid">>
           THEN /\ Has(debug, "extract_ids_parse_error")
                /\ Get(Get(toolResp).result).text
                      = <<IdExtractErrorPrefix>> \o debug["extract_ids_final_result"]
                /\ Contains(Get(Get(toolResp).result).text, debug["extract_ids_parse_error"])
           ELSE Contains(Get(Get(toolResp).result).text, "JSON parse error: ")

\* the positions in calls at which the prompt store failed to hand out a
\* normalizer's extraction template
FailedExtractionPrompts ==
    {i \in 1..Len(calls) :
        /\ calls[i].op = "prompt"
        /\ ~calls[i].ok
        /\ calls[i].detail \in {"get_product_details_byid_extract_ids",
                                "filter_products_by_risk_and_type_extract_conditions"}}

\* C19: when the prompt store is unavailable for the normalizer's template,
\* the normalizer behaves as on a parse failure: nothing is raised, no LLM
\* call is made with the prompt store's error text as its prompt, the
\* filter handed on is the sentinel (the empty id list, None for the
\* conditions), and the id-list trace is flagged
\* extract_ids_parsed_successfully = False.
C19_PromptStoreFailureDegradesToSentinel ==
    \A i \in FailedExtractionPrompts :
        /\ IsNone(raised)
        /\ i < Len(calls) => ~(calls[i + 1].op = "llm" /\ calls[i + 1].detail = "error")
        /\ (invoked = <<"get_product_details_byid">> /\ IsSome(filter)) =>
              /\ Get(filter) = <<>>
              /\ Has(debug, "extract_ids_parsed_successfully")
              /\ debug["extract_ids_parsed_successfully"] = FALSE
        /\ invoked = <<"filter_products_by_risk_and_type">> => IsNone(filter)

\* the id-list normalizer ran and the LLM answered the literal None
IdAnswerIsNoneLiteral ==
    /\ invoked = <<"get_product_details_byid">>
    /\ Has(debug, "extract_ids_llm_response")
    /\ debug["extract_ids_llm_response"].k = "none"

\* C20: in the id-list normalizer the LLM answer "None" gives the empty id
\* list and is not recorded as a parse error: the trace does not say
\* extract_ids_parsed_successfully = False and has no extract_ids_parse_error.
C20_NoneLiteralIsAnEmptyListNotAnError ==
    IdAnswerIsNoneLiteral =>
        /\ filter = Some(<<>>)
        /\ ~(Has(debug, "extract_ids_parsed_successfully")
             /\ debug["extract_ids_parsed_successfully"] = FALSE)
        /\ ~Has(debug, "extract_ids_parse_error")

\* the positions in calls of a formatter's prompt fetch (its LLM call is the
\* next one) where the fetch or the LLM call failed
FailedFormattings ==
    {i \in 1..(Len(calls) - 1) :
        /\ calls[i].op = "prompt"
        /\ calls[i].detail \in {"format_product_search_results",
                                "filter_products_by_risk_and_type_format_results"}
        /\ calls[i + 1].op = "llm"
        /\ ~calls[i].ok \/ ~calls[i + 1].ok}

\* "商品検索結果の整形中にエラーが発生しました: " of format_product_search_results and
\* "検索結果: N件の商品が見つかりました（整形エラー）" of format_results_with_llm
FormatterErrorOpenings == {"error while formatting the search results: ",
                           "search results: products found (formatting error)"}

\* C21: for a non-empty result set, when the prompt-store fetch or the LLM
\* call of the formatting stage fails, nothing is raised, the LLM is not
\* called with the prompt store's error text, and the result is the
\* formatter's fixed error sentence, not the LLM gateway's error text.
C21_FormatterFailureGivesTheFixedErrorSentence ==
    (pc = "tool_return" /\ Len(rows) > 0 /\ IsSome(toolResp)
     /\ invoked[1] \in {"get_product_details_byid", "filter_products_by_risk_and_type"}) =>
        \A i \in FailedFormattings :
            /\ IsNone(raised)
            /\ calls[i + 1].detail # "error"
            /\ IsSome(Get(toolResp).result)
            /\ Get(Get(toolResp).result).text # TextOf(LLMErrorText)
            /\ Len(Get(Get(toolResp).result).text) > 0
            /\ Get(Get(toolResp).result).text[1] \in FormatterErrorOpenings

\* what the standardization LLM call gave, as the trace of get_product_details
\* holds it before and after the query stage
StandardizeResponse ==
    IF "response" \in DOMAIN debug THEN debug.response ELSE debug.standardize_response

\* get_product_details has run its normalization and it failed: the LLM call
\* failed, the answer held no JSON object, or the object was not valid JSON
StandardizationFailed ==
    /\ server = "product"
    /\ invoked = <<"get_product_details">>
    /\ Len(calls) > 0
    /\ StandardizeResponse.k \in {"LLM call failed", "no_object", "bad_object"}

\* the fallback filter of standardize_product_arguments (lines 367-375)
FallbackFilter ==
    Some([product_code |-> [null |-> TRUE, code |-> "", name |-> <<>>],
          product_name |-> [null |-> FALSE, code |-> "", name |-> request.arg.s]])

\* the name search with the pattern %<text_input>% is the statement at hand
NameSearchOfTheRawText ==
    /\ query = <<"SELECT * FROM products WHERE 1=1", " AND product_name ILIKE ", "%s">>
    /\ query_params = <<[eq |-> "", like |-> <<"%">> \o request.arg.s \o <<"%">>]>>

\* C22: when normalization fails in get_product_details the filter is
\* {product_code: null, product_name: <the raw text_input>} and the pipeline
\* is not aborted: no exception leaves the tool, and once the tool is past
\* its query stage the name search with the pattern %<text_input>% has been
\* sent to the database.
C22_FailedStandardizationFallsBackToTheRawText ==
    StandardizationFailed =>
        /\ filter = FallbackFilter
        /\ IsNone(raised)
        /\ pc # "details_query" =>
              /\ \E i \in 1..Len(calls) : calls[i].op = "db" /\ calls[i].detail = "execute"
              /\ NameSearchOfTheRawText
              /\ pc = "tool_return" => debug.executed_query = query

\* The part of C22 that the code keeps: after a failed normalization the
\* filter is the fallback, the database is contacted before the tool
\* answers, an exception leaves the tool only from a failed connect, and a
\* statement that is executed is the name search with %<text_input>%.
C22_FallbackHoldsWhileTheConnectionOpens ==
    StandardizationFailed =>
        /\ filter = FallbackFilter
        /\ pc = "details_query" \/ \E i \in 1..Len(calls) : calls[i].op = "db"
        /\ IsSome(raised) => (/\ calls[Len(calls)].op = "db"
                              /\ calls[Len(calls)].detail = "connect"
                              /\ ~calls[Len(calls)].ok)
        /\ (\E i \in 1..Len(calls) : calls[i].op = "db" /\ calls[i].detail = "execute") =>
              /\ IsNone(raised)
              /\ NameSearchOfTheRawText
              /\ pc = "tool_return" => debug.executed_query = query

\* the LLM call of the normalization failed, the filter fell back to the raw
\* text, and get_db_connection raised before any statement was built
C22_Witness ==
    /\ StandardizationFailed
    /\ ~calls[1].ok
    /\ filter = FallbackFilter
    /\ IsSome(raised)
    /\ query = <<>>
    /\ \A i \in 1..Len(calls) : ~(calls[i].op = "db" /\ calls[i].detail = "execute")

\* the fallback filter found products through the name search
C22_FallbackSearchAnswered ==
    /\ StandardizationFailed
    /\ ~calls[1].ok
    /\ pc = "tool_return"
    /\ Len(rows) > 0
    /\ IsSome(toolResp)
    /\ query_params = <<[eq |-> "", like |-> <<"%", "J", "%">>]>>

\* the search statement of this request was sent and failed in execution
SearchStatementFailed ==
    \E i, j \in 1..Len(calls) :
        /\ i < j
        /\ calls[i].op = "llm"
        /\ calls[j].op = "db"
        /\ calls[j].detail = "execute"
        /\ ~calls[j].ok

\* the tool got as far as its formatting stage: the statement of
\* get_product_details succeeded, or the formatter's prompt was fetched
FormattingReached ==
    IF invoked[1] = "get_product_details"
    THEN \E i \in 1..Len(calls) :
            calls[i].op = "db" /\ calls[i].detail = "execute" /\ calls[i].ok
    ELSE \E i \in 1..Len(calls) :
            /\ calls[i].op = "prompt"
            /\ calls[i].detail \in {"format_product_search_results",
                                    "filter_products_by_risk_and_type_format_results",
                                    "fuzzy_search_format_results"}

\* the trace d holds what the normalizing LLM call of the tool answered
HasNormalizerOutput(tool, d) ==
    IF tool = "get_product_details_byid" THEN Has(d, "extract_ids_llm_response")
    ELSE IF tool = "filter_products_by_risk_and_type"
    THEN IsSome(d["step1_extract_conditions.llm_response"])
    ELSE IF tool = "search_products_by_name_fuzzy"
    THEN IsSome(d["step1_extract_criteria.llm_response"])
    ELSE Has(d, "standardize_response")

\* the trace d holds the statement and its parameters
HasStatement(tool, d) ==
    IF tool = "get_product_details_byid"
    THEN /\ Has(d, "search_query") /\ d["search_query"] = query
         /\ Has(d, "search_params") /\ d["search_params"] = query_params
    ELSE IF tool = "filter_products_by_risk_and_type"
    THEN /\ d["step2_sql_execution.sql_query"] = Some(query)
         /\ d["step2_sql_execution.sql_params"] = Some(query_params)
    ELSE Has(d, "executed_query") /\ d["executed_query"] = query

\* the trace d holds an answer of the formatting LLM call
HasFormatterOutput(tool, d) ==
    IF tool = "get_product_details_byid" THEN Has(d, "format_llm_response")
    ELSE IF tool = "filter_products_by_risk_and_type"
    THEN IsSome(d["step3_format_results.llm_response"])
    ELSE IF tool = "search_products_by_name_fuzzy"
    THEN IsSome(d["step4_format_results.llm_response"])
    ELSE d["error_type"] \in {"NONE", "FORMAT_ERROR"}

\* C23: when an external call of a tool call failed, the response returned
\* for the request carries a trace; the trace holds the normalizer's output
\* once the normalizing LLM call was made, the statement and its parameters
\* when the search statement failed in execution, and no formatter output
\* when the formatting stage was not reached.
C23_TraceShowsTheStagesThatRan ==
    (pc = "done" /\ invoked # <<>> /\ IsSome(response)
     /\ \E i \in 1..Len(calls) : ~calls[i].ok) =>
        /\ IsSome(Get(response).debug_response)
        /\ LET d == Get(Get(response).debug_response)
           IN /\ (\E i \in 1..Len(calls) : calls[i].op = "llm") =>
                    HasNormalizerOutput(invoked[1], d)
              /\ SearchStatementFailed => HasStatement(invoked[1], d)
              /\ ~FormattingReached => ~HasFormatterOutput(invoked[1], d)

\* the place of a stage in the pipeline
StageRank(stage) == IF stage = "normalize" THEN 1 ELSE IF stage = "query" THEN 2 ELSE 3

\* C24: within one request the external calls happen one after another in
\* pipeline order: a call that has started is completed before any other
\* call starts, the normalizer's prompt fetch and LLM call are completed
\* before the search query starts, the search query is completed before the
\* formatter's prompt fetch and LLM call start, and at no point are two
\* external calls in flight.
C24_ExternalCallsAreStrictlySequential ==
    /\ conns \in {0, 1}
    /\ Len(rows) = conns
    /\ \A i \in 1..Len(calls) :
          calls[i].ev = "start" =>
             (i = Len(calls)
              \/ (calls[i + 1].ev = "end" /\ calls[i + 1].at = calls[i].at))
    /\ \A i, j \in 1..Len(calls) :
          (i < j /\ calls[j].ev = "start") =>
             /\ StageRank(calls[i].stage) <= StageRank(calls[j].stage)
             /\ calls[i].at <= calls[j].at
    /\ \A i, j \in 1..Len(calls) :
          (calls[i].ev = "start" /\ calls[j].ev = "start"
           /\ calls[i].stage = "normalize" /\ calls[i].op \in {"prompt", "llm"}
           /\ calls[j].stage = "query") =>
             \E e \in (i + 1)..(j - 1) : calls[e].ev = "end" /\ calls[e].at = calls[i].at
    /\ \A i, j \in 1..Len(calls) :
          (calls[i].ev = "start" /\ calls[j].ev = "start"
           /\ calls[i].stage = "query" /\ calls[j].stage = "format") =>
             \E e \in (i + 1)..(j - 1) : calls[e].ev = "end" /\ calls[e].at = calls[i].at
    /\ pc = "returned" => conns = 0

\* the risk-filter tool has returned after all six of its external calls,
\* the search query among them having failed
C24_Witness ==
    /\ pc = "returned"
    /\ invoked = <<"filter_products_by_risk_and_type">>
    /\ Len(calls) = 12
    /\ \E i \in 1..Len(calls) :
          calls[i].ev = "end" /\ calls[i].stage = "query" /\ ~calls[i].ok
    /\ calls[12].ev = "end"
    /\ calls[12].stage = "format"
    /\ calls[12].op = "llm"

\* the risk-filter tool has returned after five external calls: the
\* conditions were no mapping, no search query was sent, and the formatter's
\* calls followed the normalizer's
C24_QueryCallLeftOut ==
    /\ pc = "returned"
    /\ invoked = <<"filter_products_by_risk_and_type">>
    /\ Len(calls) = 10
    /\ \A i \in 1..Len(calls) : calls[i].stage # "query"
    /\ calls[6].ev = "end" /\ calls[6].at = 3
    /\ calls[7].ev = "start" /\ calls[7].at = 5
    /\ calls[10].ev = "end" /\ calls[10].stage = "format" /\ calls[10].op = "llm"

\* t is s without its leading and trailing blanks
IsTrimOf(t, s) ==
    /\ Len(t) > 0 => (t[1] # " " /\ t[Len(t)] # " ")
    /\ \E a \in 0..Len(s) :
          /\ a + Len(t) <= Len(s)
          /\ \A i \in 1..Len(s) :
                IF i > a /\ i <= a + Len(t) THEN s[i] = t[i - a] ELSE s[i] = " "

\* the number of LLM calls made so far in this request
LlmCallsMade == Cardinality({i \in 1..Len(calls) : calls[i].op = "llm"})

\* C25: in search_products_by_name_fuzzy the LLM calls are chained: the
\* filtering prompt embeds the trimmed answer of the keyword-extraction
\* call, the formatting prompt is given the list parsed from the filtering
\* answer, each call is made after the one before has answered, and the
\* filtering call is not made when the first answer is empty after trimming
\* or when no products were fetched.
C25_FuzzyLlmCallsAreChained ==
    (server = "main" /\ invoked = <<"search_products_by_name_fuzzy">>
     /\ pc \notin {"fuzzy_start"} /\ DOMAIN debug # {}) =>
        LET first == debug["step1_extract_criteria.llm_response"]
            second == debug["step3_filter_products.llm_request"]
            third == debug["step4_format_results.llm_request"]
        IN /\ IsSome(second) =>
                /\ IsSome(first)
                /\ IsTrimOf(Get(second).criteria, TextOf(Get(first)))
                /\ Len(Get(second).criteria) > 0
                /\ Len(Get(second).products) > 0
                /\ LlmCallsMade >= 2
           /\ IsSome(third) =>
                /\ IsSome(second)
                /\ IsSome(debug["step3_filter_products.llm_response"])
                /\ Get(third).products = Get(debug["step3_filter_products.filtered_products"])
                /\ Get(third).products = rows
                /\ LlmCallsMade = 3
           /\ LlmCallsMade >= 2 => IsSome(second)
           /\ LlmCallsMade = 3 => IsSome(third)
           /\ (IsSome(first) /\ \A i \in 1..Len(TextOf(Get(first))) :
                                   TextOf(Get(first))[i] = " ") =>
                (LlmCallsMade = 1 /\ IsNone(second))
           /\ ((\E i \in 1..Len(calls) : calls[i].op = "api")
               /\ debug["step2_api_call.products_count"] = 0) =>
                (LlmCallsMade = 1 /\ IsNone(second))

\* the fuzzy search has answered after three LLM calls, the formatting call
\* having been given the one product the filtering call kept
C25_Witness ==
    /\ server = "main"
    /\ invoked = <<"search_products_by_name_fuzzy">>
    /\ pc = "tool_return"
    /\ LlmCallsMade = 3
    /\ IsSome(debug["step4_format_results.llm_request"])
    /\ Len(Get(debug["step4_format_results.llm_request"]).products) = 1
    /\ Get(debug["step3_filter_products.llm_request"]).criteria = <<"SUMMARY">>

\* the trace d of the tool records the elapsed time of the whole call
HasTotalTime(tool, d) ==
    IF tool \in {"get_product_details_byid", "get_product_details"}
    THEN Has(d, "execution_time_ms") /\ d["execution_time_ms"] = Elapsed
    ELSE d["total_execution_time_ms"] = Elapsed

\* C26: every response a tool returns after its input validation, on the
\* success path and on every early-return and error path, carries a trace
\* in which the elapsed time of the whole call is recorded
\* (execution_time_ms / total_execution_time_ms).
C26_EveryResponseRecordsTheTotalTime ==
    (pc = "tool_return" /\ IsSome(toolResp) /\ Len(calls) > 0) =>
        /\ IsSome(Get(toolResp).debug_response)
        /\ HasTotalTime(invoked[1], Get(Get(toolResp).debug_response))

\* the integers that the int elements >= 0 and the decimal-digit strings of a
\* list answer denote
DecimalIds(elems) ==
    {elems[i].v : i \in {j \in 1..Len(elems) :
                            \/ (elems[j].t = "int" /\ elems[j].v >= 0)
                            \/ elems[j].t = "digits"}}

\* the integers a reader may take the isdigit-but-not-decimal strings to denote
NonDecimalIds(elems) ==
    {elems[i].v : i \in {j \in 1..Len(elems) : elems[j].t = "nondecimal"}}

\* the id-extraction answer is in the trace and the tool has its id list
IdAnswerExtracted ==
    /\ invoked = <<"get_product_details_byid">>
    /\ Has(debug, "extract_ids_llm_response")
    /\ IsSome(filter)

\* C27: when the answer to the id-extraction prompt parses to a list, the
\* extraction is recorded as parsed successfully and returns a list without
\* duplicates that holds the non-negative integers of the int elements and
\* of the all-digit strings and nothing that any other element denotes;
\* when it parses to a value that is not a list, a parse failure is recorded.
C27_ListAnswerYieldsItsDistinctIdsWithoutError ==
    IdAnswerExtracted =>
        LET resp == debug["extract_ids_llm_response"]
            ids == Get(filter)
        IN /\ resp.k = "list" =>
                /\ Has(debug, "extract_ids_parsed_successfully")
                /\ debug["extract_ids_parsed_successfully"] = TRUE
                /\ Len(ids) = Cardinality(Range(ids))
                /\ DecimalIds(resp.elems) \subseteq Range(ids)
                /\ Range(ids) \subseteq DecimalIds(resp.elems) \cup NonDecimalIds(resp.elems)
           /\ resp.k = "none" => ParseFlaggedFailed(debug) /\ ids = <<>>

\* the id-list tool returned with an empty id list that no parse failure explains
EmptyIdListWithoutParseFailure ==
    /\ server = "main"
    /\ invoked = <<"get_product_details_byid">>
    /\ pc = "tool_return"
    /\ filter = Some(<<>>)
    /\ \/ (Has(debug, "extract_ids_parsed_successfully")
           /\ debug["extract_ids_parsed_successfully"] = TRUE)
       \/ Has(debug, "extract_ids_error")

\* the calls of format_product_search_results: its prompt fetch
FormatPromptCalls ==
    Cardinality({i \in 1..Len(calls) : /\ calls[i].op = "prompt"
                                       /\ calls[i].detail = "format_product_search_results"})

\* C28: in get_product_details_byid an id extraction that parses but yields
\* no id, or that fails with an error other than a parse error, is answered
\* with the fixed "product id not found" text as result and as error, with
\* no database call and no formatting call; a query that returns no row is
\* answered with the fixed "no product for the given ids" text and the
\* formatter's prompt store and LLM are not called.
C28_EmptyIdListAndZeroRowsReturnTheFixedMessages ==
    /\ EmptyIdListWithoutParseFailure =>
        /\ IsSome(toolResp)
        /\ Get(toolResp).result = Some(TextResult(<<ProductIdNotFound>>))
        /\ Get(toolResp).error = Some(<<ProductIdNotFound>>)
        /\ CallsTo("db") = 0
        /\ query = <<>>
        /\ FormatPromptCalls = 0
        /\ LlmCallsMade = 1
    /\ (IdQueryAnswered /\ pc = "tool_return" /\ rows = <<>>) =>
        /\ IsSome(toolResp)
        /\ Get(toolResp).result = Some(TextResult(<<NoProductForIds>>))
        /\ FormatPromptCalls = 0
        /\ LlmCallsMade = 1

C28_Witness ==
    /\ EmptyIdListWithoutParseFailure
    /\ Has(debug, "extract_ids_llm_response")
    /\ debug["extract_ids_llm_response"] = [k |-> "list", elems |-> <<FloatElem, BoolElem>>]
    /\ IsSome(toolResp)
    /\ Get(toolResp).error = Some(<<ProductIdNotFound>>)
    /\ Len(calls) = 2

\* the filtering answer of the fuzzy search is in the trace and is not a JSON array
FilterAnswerUnusable ==
    /\ server = "main"
    /\ invoked = <<"search_products_by_name_fuzzy">>
    /\ DOMAIN debug # {}
    /\ Has(debug, "step3_filter_products.llm_response")
    /\ IsSome(debug["step3_filter_products.llm_response"])
    /\ Get(debug["step3_filter_products.llm_response"]).k # "array"

\* C29: in search_products_by_name_fuzzy a filtering answer that has no
\* JSON array, or whose bracketed part is not valid JSON or not a list,
\* gives an empty filtered list and raises nothing; the formatting stage
\* is then run on the empty list and the response has isError false and
\* no error.
C29_UnusableFilterAnswerDegradesToAnEmptyList ==
    FilterAnswerUnusable =>
        /\ IsNone(raised)
        /\ debug["step3_filter_products.filtered_products"] = Some(<<>>)
        /\ IsNone(debug["error"])
        /\ pc # "fuzzy_filter"
        /\ pc = "tool_return" =>
            /\ IsSome(debug["step4_format_results.llm_request"])
            /\ Get(debug["step4_format_results.llm_request"]).products = <<>>
            /\ \E i \in 1..Len(calls) : /\ calls[i].op = "prompt"
                                        /\ calls[i].detail = "fuzzy_search_format_results"
            /\ LlmCallsMade = 3
            /\ IsSome(toolResp)
            /\ IsSome(Get(toolResp).result)
            /\ Get(Get(toolResp).result).kind = "content"
            /\ Get(Get(toolResp).result).isError = FALSE
            /\ IsNone(Get(toolResp).error)

\* the answer with brackets around invalid JSON was formatted as an empty list
C29_Witness ==
    /\ FilterAnswerUnusable
    /\ Get(debug["step3_filter_products.llm_response"]).k = "bad_json"
    /\ pc = "tool_return"
    /\ rows = <<>>
    /\ IsSome(toolResp)
    /\ IsNone(Get(toolResp).error)
    /\ LlmCallsMade = 3

\* what call_claude, call_llm_simple and call_claude_with_llm_info give: no
\* exception, the text that opens with "LLM error: " when the invocation or
\* the decoding of its body failed and never the "ERROR: " text, and the
\* model's answer as it is after a successful invocation
GatewayGaveText ==
    /\ IsNone(raised)
    /\ IsSome(response)
    /\ Get(response) # ErrorPrefixText
    /\ request.outcome # "ok" =>
          /\ Get(response) = LLMErrorText
          /\ TextOf(Get(response))[1] = "LLM error: "
    /\ request.outcome = "ok" => Get(response) = request.answer

\* the calling function has gone on after an invocation that failed
CallerWentOnAfterAFailure ==
    /\ pc = "caller_returned"
    /\ request.outcome # "ok"

====
